---- MODULE Spec2Model ----
(***************************************************************************)
(* App Store Server Notifications -> Pushover webhook.                     *)
(*                                                                         *)
(* The model follows src/src/webhookHandler.ts (the request workflow),     *)
(* src/src/appleVerifier.ts (tenant / environment resolution),             *)
(* dedupeStore.ts (src/README.md:265-303, Redis SET NX EX) and             *)
(* eventClassifier.ts (src/unnamed/part_001:95-113).                       *)
(*                                                                         *)
(* One handler invocation is a small process: the awaits of the handler    *)
(* (verifyNotification, markNotificationAsNew, sendPushover) are its       *)
(* suspension points, so invocations interleave exactly there.             *)
(***************************************************************************)
EXTENDS Integers, Sequences, FiniteSets, TLC

(***************************************************************************)
(* Bounds of the model.                                                    *)
(***************************************************************************)
\* number of handler invocations (deliveries by the sender)
MaxRequests == 2
\* number of direct calls of markNotificationAsNew (specification SpecLedger)
MaxCalls == 3

Reqs == 1..MaxRequests

\* number of direct calls of determineSubscriptionLifecycleHint
\* (specification SpecLifecycle)
MaxHintCalls == 2

HintCalls == 1..MaxHintCalls

(***************************************************************************)
(* Program constants.                                                      *)
(***************************************************************************)
\* env.ts: export const DEDUPE_TTL_SECONDS = 60 * 60 * 24 * 30
DEDUPE_TTL_SECONDS == 60 * 60 * 24 * 30

\* "undefined" / null for optional strings
None == "<none>"

\* AppConfig as produced by loadConfig (two tenants, explicit bundle ids)
Config ==
  [ webhookSecret |-> "super-secret",
    appleApps |-> << [bundleId |-> "com.example.app", appAppleId |-> 1,
                      pushoverUserKey |-> "user-key-1", pushoverDevice |-> None],
                     [bundleId |-> "com.example.app2", appAppleId |-> 2,
                      pushoverUserKey |-> "user-key-override",
                      pushoverDevice |-> "iphone-override"] >>,
    appleEnableOnlineChecks |-> FALSE,
    appleRootCaDir |-> <<"certs", "apple">>,
    dedupeTtlSeconds |-> DEDUPE_TTL_SECONDS ]

(***************************************************************************)
(* Timestamps and DecodedTransactionInfo                                   *)
(***************************************************************************)
ONE_DAY_IN_MS == 24 * 60 * 60 * 1000

\* A millisecond timestamp (or a difference of two) is days * ONE_DAY_IN_MS
\* + ms with 0 <= ms < ONE_DAY_IN_MS: today's timestamps are beyond the
\* integers of the checker.  A field holds a finite number, a number that
\* is not finite, or nothing.
At(days, ms) == [kind |-> "number", days |-> days, ms |-> ms]

NaN == [kind |-> "nan", days |-> 0, ms |-> 0]

Undefined == [kind |-> "undefined", days |-> 0, ms |-> 0]

\* typeof value === "number" && Number.isFinite(value)
IsFiniteNumber(value) == value.kind = "number"

\* a - b for two finite timestamps
Minus(a, b) ==
  IF a.ms >= b.ms THEN At(a.days - b.days, a.ms - b.ms)
  ELSE At(a.days - b.days - 1, a.ms - b.ms + ONE_DAY_IN_MS)

\* DecodedTransactionInfo; NoTransactionInfo is "undefined"
TransactionInfo(productId, transactionId, price, currency, originalTransactionId, offerDiscountType, transactionReason, purchaseDate, originalPurchaseDate) ==
  [ present |-> TRUE,
    productId |-> productId,
    transactionId |-> transactionId,
    price |-> price,
    currency |-> currency,
    originalTransactionId |-> originalTransactionId,
    offerDiscountType |-> offerDiscountType,
    transactionReason |-> transactionReason,
    purchaseDate |-> purchaseDate,
    originalPurchaseDate |-> originalPurchaseDate ]

\* a transaction id is the sequence of its characters; a price is a finite
\* number of milliunits or NoPrice
NoPrice == -1

\* a price that is NaN or an infinity
NonFinitePrice == -2

NoTransactionInfo ==
  [ present |-> FALSE, productId |-> None, transactionId |-> << >>,
    price |-> NoPrice, currency |-> None,
    originalTransactionId |-> None, offerDiscountType |-> None,
    transactionReason |-> None, purchaseDate |-> Undefined,
    originalPurchaseDate |-> Undefined ]

\* "1000001111222233", the transaction id of the tests
LongTransactionId ==
  <<"1", "0", "0", "0", "0", "0", "1", "1", "1", "1", "2", "2", "2", "2", "3", "3">>

\* 1700000000000 ms, the original purchase date of the tests
OriginalPurchaseDate == At(19675, 80000000)

\* a + delta for two finite values
Plus(a, delta) ==
  IF a.ms + delta.ms < ONE_DAY_IN_MS THEN At(a.days + delta.days, a.ms + delta.ms)
  ELSE At(a.days + delta.days + 1, a.ms + delta.ms - ONE_DAY_IN_MS)

\* a trial start, a renewal a week and a renewal a year after the original
\* purchase of one subscription, a renewal of another one, a transaction
\* without dates, one without originalTransactionId, and no transaction
\* info
LifecycleTransactionInputs ==
  { TransactionInfo("pro_yearly", <<"1", "0", "0", "1">>, NoPrice, None, "otx-1",
                    "FREE_TRIAL", "PURCHASE", OriginalPurchaseDate,
                    OriginalPurchaseDate),
    TransactionInfo("pro_yearly", <<"1", "0", "0", "2">>, 29990, "EUR", "otx-1",
                    None, "RENEWAL", Plus(OriginalPurchaseDate, At(7, 0)),
                    OriginalPurchaseDate),
    TransactionInfo("pro_yearly", LongTransactionId, 29990, "EUR", "otx-1",
                    None, "RENEWAL", Plus(OriginalPurchaseDate, At(365, 0)),
                    OriginalPurchaseDate),
    TransactionInfo("pro_monthly", <<"1", "0", "0", "4">>, 4990, "EUR", "otx-2",
                    None, "RENEWAL", Plus(OriginalPurchaseDate, At(365, 0)),
                    OriginalPurchaseDate),
    TransactionInfo("pro_yearly", <<"1", "0", "0", "5">>, NoPrice, None, "otx-1",
                    None, None, Undefined, Undefined),
    TransactionInfo("pro_yearly", <<"1", "0", "0", "6">>, 29990, "EUR", None,
                    None, "RENEWAL", Plus(OriginalPurchaseDate, At(7, 0)),
                    OriginalPurchaseDate),
    NoTransactionInfo }

(***************************************************************************)
(* Signed envelopes.  An envelope is the signed string Apple (or anybody   *)
(* else) posts; it is modelled by what a verifier can find out about it:   *)
(* whether its certificate chain leads to an Apple root, the environment   *)
(* and app it was issued for, and the decoded payload fields.              *)
(***************************************************************************)
UUIDs == {"uuid-1", "uuid-2", "uuid-3", "uuid-4"}

\* bundleId, appAppleId and env are the members of the payload's data object,
\* where Apple puts them; topLevelBundleId is a bundleId member of the
\* payload itself, which Apple's payloads do not have; transactionVerifies
\* tells whether data.signedTransactionInfo passes verifyAndDecodeTransaction
Envelope(genuine, env, bundleId, appAppleId, uuid, ntype, subtype, transactionInfo) ==
  [ genuine |-> genuine, env |-> env, bundleId |-> bundleId,
    topLevelBundleId |-> None, transactionVerifies |-> TRUE,
    appAppleId |-> appAppleId, notificationUUID |-> uuid,
    notificationType |-> ntype, subtype |-> subtype,
    transactionInfo |-> transactionInfo ]

NoEnvelope == Envelope(FALSE, None, None, 0, None, None, None, NoTransactionInfo)

\* an envelope whose payload has a bundleId member of its own
WithTopLevelBundleId(envelope, bundleId) ==
  [envelope EXCEPT !.topLevelBundleId = bundleId]

\* an envelope whose signedTransactionInfo the verifier rejects
WithRejectedTransaction(envelope) ==
  [envelope EXCEPT !.transactionVerifies = FALSE]

\* the transactions of LifecycleTransactionInputs: the trial start, the
\* renewal a year later and the renewal of the other subscription
TrialStartTransaction ==
  CHOOSE t \in LifecycleTransactionInputs : t.offerDiscountType = "FREE_TRIAL"

YearlyRenewalTransaction ==
  CHOOSE t \in LifecycleTransactionInputs :
    t.originalTransactionId = "otx-1" /\ t.transactionId = LongTransactionId

OtherRenewalTransaction ==
  CHOOSE t \in LifecycleTransactionInputs : t.originalTransactionId = "otx-2"

Envelopes ==
  { Envelope(TRUE, "Production", "com.example.app", 1, "uuid-1", "SUBSCRIBED",
             "INITIAL_BUY", TrialStartTransaction),
    Envelope(TRUE, "Sandbox", "com.example.app2", 2, "uuid-2", "REFUND",
             None, NoTransactionInfo),
    Envelope(TRUE, "Production", "com.example.app", 1, "uuid-3",
             "DID_CHANGE_RENEWAL_STATUS", "AUTO_RENEW_DISABLED", NoTransactionInfo),
    Envelope(FALSE, "Production", "com.example.app", 1, "uuid-1", "SUBSCRIBED",
             "INITIAL_BUY", TrialStartTransaction),
    Envelope(TRUE, "Production", "com.other.app", 9, "uuid-2", "DID_RENEW",
             None, OtherRenewalTransaction),
    Envelope(TRUE, "Production", "com.example.app", 1, "uuid-4", "DID_RENEW",
             "BILLING_RECOVERY",
             [YearlyRenewalTransaction EXCEPT !.offerDiscountType = "PAY_AS_YOU_GO"]) }

(***************************************************************************)
(* eventClassifier.ts                                                      *)
(***************************************************************************)
PURCHASE_NOTIFICATION_TYPES == {"SUBSCRIBED", "DID_RENEW", "ONE_TIME_CHARGE"}

\* mutant: everything that is not a refund counts as a purchase
classifyNotificationType_NoIgnore(notificationType) ==
  IF notificationType = "REFUND" THEN "REFUND" ELSE "PURCHASE"

\* mutant: every notification type about refunds counts as a refund
classifyNotificationType_AnyRefund(notificationType) ==
  IF notificationType \in {"REFUND", "REFUND_DECLINED", "REFUND_REVERSED"}
  THEN "REFUND"
  ELSE IF notificationType \in PURCHASE_NOTIFICATION_TYPES THEN "PURCHASE"
  ELSE "IGNORE"

classifyNotificationType(notificationType) ==
  IF notificationType = "REFUND" THEN "REFUND"
  ELSE IF notificationType \in PURCHASE_NOTIFICATION_TYPES THEN "PURCHASE"
  ELSE "IGNORE"

(***************************************************************************)
(* appleVerifier.ts                                                        *)
(***************************************************************************)
\* process.cwd(); a path is the sequence of its segments, absolute paths
\* start with the segment "/"
Cwd == <<"/", "var", "task">>

resolveRootCaDirectory(rootCaDir) ==
  IF Len(rootCaDir) > 0 /\ rootCaDir[1] = "/" THEN rootCaDir ELSE Cwd \o rootCaDir

\* JSON.stringify of the four key fields
getVerifierCacheKey(config, bundleId, appAppleId) ==
  [ bundleId |-> bundleId, appId |-> appAppleId,
    onlineChecks |-> config.appleEnableOnlineChecks,
    rootCaDir |-> resolveRootCaDirectory(config.appleRootCaDir) ]

\* The verifierCache map is the set of its entries (key and pair).
\* verifierCache.get(cacheKey): the entries under the key
cacheGet(cache, cacheKey) == { e \in cache : e.key = cacheKey }

\* verifierCache.set(cacheKey, created)
cacheSet(cache, cacheKey, created) ==
  { e \in cache : e.key # cacheKey } \cup {[key |-> cacheKey, pair |-> created]}

\* createVerifiers: a new pair of verifiers (production with the app id,
\* sandbox without), a new object each time: the id tells it from the pairs
\* made before it, which all are in the cache
createVerifiers(cache, config, bundleId, appAppleId) ==
  [ id |-> Cardinality(cache) + 1,
    onlineChecks |-> config.appleEnableOnlineChecks,
    bundleId |-> bundleId, appAppleId |-> appAppleId ]

NoVerifierPair == [id |-> 0, onlineChecks |-> FALSE, bundleId |-> None, appAppleId |-> 0]

\* mutant: the cache is not looked at, every call makes a pair and stores it
getVerifiers_AlwaysCreates(cache, rootCAs, config, bundleId, appAppleId) ==
  LET cacheKey == getVerifierCacheKey(config, bundleId, appAppleId)
      created == createVerifiers(cache, config, bundleId, appAppleId)
  IN IF ~rootCAs
     THEN [ok |-> FALSE, cache |-> cache, created |-> TRUE, pair |-> NoVerifierPair]
     ELSE [ ok |-> TRUE, cache |-> cacheSet(cache, cacheKey, created),
            created |-> TRUE, pair |-> created ]

\* getVerifiers: a cached pair is returned as is; otherwise createVerifiers
\* runs (created) with loadAppleRootCAs, which throws when the directory is
\* missing or holds no certificate file (rootCAs = FALSE).
getVerifiers(cache, rootCAs, config, bundleId, appAppleId) ==
  LET cacheKey == getVerifierCacheKey(config, bundleId, appAppleId)
      cached == cacheGet(cache, cacheKey)
      created == createVerifiers(cache, config, bundleId, appAppleId)
  IN IF cached # {}
     THEN [ ok |-> TRUE, cache |-> cache, created |-> FALSE,
            pair |-> (CHOOSE e \in cached : TRUE).pair ]
     ELSE IF ~rootCAs
     THEN [ok |-> FALSE, cache |-> cache, created |-> TRUE, pair |-> NoVerifierPair]
     ELSE [ ok |-> TRUE, cache |-> cacheSet(cache, cacheKey, created),
            created |-> TRUE, pair |-> created ]

\* SignedDataVerifier(rootCAs, onlineChecks, environment, bundleId, appAppleId)
\* .verifyAndDecodeNotification of Apple's library: the chain must lead to a
\* root CA, the payload's bundle id must be the verifier's, in production the
\* app id too, and the payload's environment must be the verifier's.
verifyAndDecodeNotification(environment, bundleId, appAppleId, signedPayload) ==
  /\ signedPayload.genuine
  /\ signedPayload.bundleId = bundleId
  /\ (environment = "Production" => signedPayload.appAppleId = appAppleId)
  /\ signedPayload.env = environment

\* String.prototype.trim on the strings of the inputs that have white space
\* at their ends
Trim(value) ==
  CASE value = " com.example.app " -> "com.example.app"
    [] value = "   " -> ""
    [] OTHER -> value

\* None is undefined or a value that is no string
optionalNonEmptyString(value) ==
  IF value = None THEN None
  ELSE IF Trim(value) = "" THEN None ELSE Trim(value)

\* a ?? b
OrElse(a, b) == IF a # None THEN a ELSE b

\* TRUE when ensureString does not throw
ensureString(value) == value # None /\ value # ""

\* the bundle id read from the unverified payload segment: the payload's
\* own bundleId, else that of its data object
extractBundleIdFromSignedPayload(signedPayload) ==
  OrElse(optionalNonEmptyString(signedPayload.topLevelBundleId),
         optionalNonEmptyString(signedPayload.bundleId))

\* mutant: the decoded bundle id is not compared with the configured one
ensureBundleIdMatches_Unchecked(expectedBundleId, bundleId) == TRUE

\* TRUE when ensureBundleIdMatches does not throw
ensureBundleIdMatches(expectedBundleId, bundleId) ==
  ~(expectedBundleId # None /\ bundleId # expectedBundleId)

NoVerified ==
  [ notificationUUID |-> None, notificationType |-> None, subtype |-> None,
    environment |-> None,
    bundleId |-> None, appAppleId |-> 0, pushoverUserKey |-> None,
    pushoverDevice |-> None, transactionInfo |-> NoTransactionInfo,
    usedVerifier |-> None, attempts |-> << >> ]

VerifyFailed(error, cache) ==
  [ok |-> FALSE, error |-> error, verified |-> NoVerified, cache |-> cache]

\* the part of verifyAppleNotification after a verifier accepted the payload
\* (lines 246-296); usedVerifier and attempts, the verifier invocations made
\* so far as <<tenant index, environment>>, are kept for reference only
decodeVerified(app, usedVerifier, attempts, signedPayload, cache) ==
  LET bundleId == OrElse(optionalNonEmptyString(signedPayload.topLevelBundleId),
                         optionalNonEmptyString(signedPayload.bundleId))
  IN
  IF ~ensureString(signedPayload.notificationUUID)
  THEN VerifyFailed("missing_notificationUUID", cache)
  ELSE IF ~ensureString(signedPayload.notificationType)
  THEN VerifyFailed("missing_notificationType", cache)
  ELSE IF bundleId = None
  THEN VerifyFailed("missing_bundleId", cache)
  ELSE IF ~ensureBundleIdMatches(app.bundleId, bundleId)
  THEN VerifyFailed("bundle_id_mismatch", cache)
  ELSE IF signedPayload.transactionInfo.present /\ ~signedPayload.transactionVerifies
  THEN VerifyFailed("transaction_verification_failed", cache)
  ELSE [ ok |-> TRUE, error |-> None, cache |-> cache,
         verified |->
           [ notificationUUID |-> signedPayload.notificationUUID,
             notificationType |-> signedPayload.notificationType,
             subtype |-> signedPayload.subtype,
             transactionInfo |-> signedPayload.transactionInfo,
             environment |-> IF optionalNonEmptyString(signedPayload.env) # None
                             THEN signedPayload.env ELSE "UNKNOWN",
             bundleId |-> bundleId,
             appAppleId |-> app.appAppleId,
             pushoverUserKey |-> app.pushoverUserKey,
             pushoverDevice |-> app.pushoverDevice,
             usedVerifier |-> usedVerifier,
             attempts |-> attempts ] ]

\* mutant: a rejection by the verifiers is ignored, the payload is decoded
\* all the same
tryVerifiers_IgnoreRejection(bundleId, appAppleId, signedPayload) ==
  IF verifyAndDecodeNotification("Production", bundleId, appAppleId, signedPayload)
  THEN [usedVerifier |-> "Production", tried |-> <<"Production">>]
  ELSE [usedVerifier |-> "Sandbox", tried |-> <<"Production", "Sandbox">>]

\* mutant: the sandbox verifier is never asked
tryVerifiers_ProductionOnly(bundleId, appAppleId, signedPayload) ==
  IF verifyAndDecodeNotification("Production", bundleId, appAppleId, signedPayload)
  THEN [usedVerifier |-> "Production", tried |-> <<"Production">>]
  ELSE [usedVerifier |-> None, tried |-> <<"Production">>]

\* a variant that asks the sandbox verifier first
tryVerifiers_SandboxFirst(bundleId, appAppleId, signedPayload) ==
  IF verifyAndDecodeNotification("Sandbox", bundleId, appAppleId, signedPayload)
  THEN [usedVerifier |-> "Sandbox", tried |-> <<"Sandbox">>]
  ELSE IF verifyAndDecodeNotification("Production", bundleId, appAppleId,
                                      signedPayload)
  THEN [usedVerifier |-> "Production", tried |-> <<"Sandbox", "Production">>]
  ELSE [usedVerifier |-> None, tried |-> <<"Sandbox", "Production">>]

\* the loop "for (const verifier of [verifiers.production, verifiers.sandbox])":
\* the first verifier that accepts the payload ends the loop
tryVerifiers(bundleId, appAppleId, signedPayload) ==
  IF verifyAndDecodeNotification("Production", bundleId, appAppleId, signedPayload)
  THEN [usedVerifier |-> "Production", tried |-> <<"Production">>]
  ELSE IF verifyAndDecodeNotification("Sandbox", bundleId, appAppleId,
                                      signedPayload)
  THEN [usedVerifier |-> "Sandbox", tried |-> <<"Production", "Sandbox">>]
  ELSE [usedVerifier |-> None, tried |-> <<"Production", "Sandbox">>]

RECURSIVE verifyApps(_, _, _, _, _, _, _)
\* mutant: a later tenant that verifies the payload is preferred
verifyApps_LaterTenantWins(i, lastError, attempts, signedPayload, config, cache, rootCAs) ==
  LET later == verifyApps(i + 1, lastError, attempts, signedPayload, config, cache,
                          rootCAs)
  IN IF i < Len(config.appleApps) /\ later.ok THEN later ELSE
  IF i > Len(config.appleApps)
  THEN VerifyFailed(IF lastError # None THEN lastError ELSE "unable_to_verify", cache)
  ELSE
    LET app == config.appleApps[i]
        bundleIdForVerifier ==
          IF app.bundleId # None THEN app.bundleId
          ELSE extractBundleIdFromSignedPayload(signedPayload)
    IN IF bundleIdForVerifier = None
       THEN verifyApps(i + 1, "no_bundle_id", attempts, signedPayload, config,
                       cache, rootCAs)
       ELSE
         LET got == getVerifiers(cache, rootCAs, config, bundleIdForVerifier,
                                 app.appAppleId)
             tried == tryVerifiers(bundleIdForVerifier, app.appAppleId,
                                   signedPayload)
             made == attempts \o [k \in 1..Len(tried.tried) |-> <<i, tried.tried[k]>>]
         IN IF ~got.ok THEN VerifyFailed("root_ca_unavailable", cache)
            ELSE IF tried.usedVerifier # None
            THEN decodeVerified(app, tried.usedVerifier, made, signedPayload,
                                got.cache)
            ELSE verifyApps(i + 1, "verification_failed", made, signedPayload,
                            config, got.cache, rootCAs)

\* the loop "for (const app of config.appleApps)" from index i on
verifyApps(i, lastError, attempts, signedPayload, config, cache, rootCAs) ==
  IF i > Len(config.appleApps)
  THEN VerifyFailed(IF lastError # None THEN lastError ELSE "unable_to_verify", cache)
  ELSE
    LET app == config.appleApps[i]
        bundleIdForVerifier ==
          IF app.bundleId # None THEN app.bundleId
          ELSE extractBundleIdFromSignedPayload(signedPayload)
    IN IF bundleIdForVerifier = None
       THEN verifyApps(i + 1, "no_bundle_id", attempts, signedPayload, config,
                       cache, rootCAs)
       ELSE
         LET got == getVerifiers(cache, rootCAs, config, bundleIdForVerifier,
                                 app.appAppleId)
             tried == tryVerifiers(bundleIdForVerifier, app.appAppleId,
                                   signedPayload)
             made == attempts \o [k \in 1..Len(tried.tried) |-> <<i, tried.tried[k]>>]
         IN IF ~got.ok THEN VerifyFailed("root_ca_unavailable", cache)
            ELSE IF tried.usedVerifier # None
            THEN decodeVerified(app, tried.usedVerifier, made, signedPayload,
                                got.cache)
            ELSE verifyApps(i + 1, "verification_failed", made, signedPayload,
                            config, got.cache, rootCAs)

verifyAppleNotification(signedPayload, config, cache, rootCAs) ==
  verifyApps(1, None, << >>, signedPayload, config, cache, rootCAs)

(***************************************************************************)
(* dedupeStore.ts (src/README.md:265-303) over Redis                       *)
(***************************************************************************)
getDedupeKey(notificationUUID) == <<"appstore:notification", notificationUUID>>

DedupeKeys == { getDedupeKey(u) : u \in UUIDs }

\* The store maps a key to the time at which it expires, 0 when the key was
\* never set.  Redis drops a key once its time to live has run out.
\* mutant: the key is still served at the instant it expires
KeyLive_OffByOne(store, key, t) == store[key] >= t

KeyLive(store, key, t) == store[key] > t

\* mutant: SET without NX overwrites and always answers "OK"
redisSetNxEx_NoNx(store, key, ex, t) ==
  [result |-> "OK", store |-> [store EXCEPT ![key] = t + ex]]

\* Redis SET key value EX ex NX, executed by the store as one command at time
\* t: "OK" when the key was absent and is now set, null otherwise
redisSetNxEx(store, key, ex, t) ==
  IF KeyLive(store, key, t)
  THEN [result |-> None, store |-> store]
  ELSE [result |-> "OK", store |-> [store EXCEPT ![key] = t + ex]]

\* mutant: a replay renews the time to live of the key
markNotificationAsNew_Touch(store, notificationUUID, config, t) ==
  LET set == redisSetNxEx(store, getDedupeKey(notificationUUID),
                          config.dedupeTtlSeconds, t)
  IN [ isNew |-> set.result = "OK",
       store |-> [store EXCEPT ![getDedupeKey(notificationUUID)] =
                    t + config.dedupeTtlSeconds] ]

\* mutant: the key is written with a time to live of one day
markNotificationAsNew_ShortTtl(store, notificationUUID, config, t) ==
  LET set == redisSetNxEx(store, getDedupeKey(notificationUUID), 60 * 60 * 24, t)
  IN [isNew |-> set.result = "OK", store |-> set.store]

markNotificationAsNew(store, notificationUUID, config, t) ==
  LET set == redisSetNxEx(store, getDedupeKey(notificationUUID),
                          config.dedupeTtlSeconds, t)
  IN [isNew |-> set.result = "OK", store |-> set.store]

(***************************************************************************)
(* subscriptionStateStore.ts (src/README.md:305-530)                       *)
(***************************************************************************)
SUBSCRIPTION_STATE_TTL_SECONDS == 60 * 60 * 24 * 730

\* SubscriptionState; NoState is null
SubscriptionState(sawFreeTrial, didRenewCount, notificationCount, firstSeenAt, updatedAt, firstNotificationType, lastNotificationType, originalPurchaseDate, firstPurchaseDate, lastPurchaseDate) ==
  [ present |-> TRUE,
    sawFreeTrial |-> sawFreeTrial,
    didRenewCount |-> didRenewCount,
    notificationCount |-> notificationCount,
    firstSeenAt |-> firstSeenAt,
    updatedAt |-> updatedAt,
    firstNotificationType |-> firstNotificationType,
    lastNotificationType |-> lastNotificationType,
    originalPurchaseDate |-> originalPurchaseDate,
    firstPurchaseDate |-> firstPurchaseDate,
    lastPurchaseDate |-> lastPurchaseDate ]

NoState ==
  [ present |-> FALSE, sawFreeTrial |-> FALSE, didRenewCount |-> 0,
    notificationCount |-> 0, firstSeenAt |-> Undefined, updatedAt |-> Undefined,
    firstNotificationType |-> None, lastNotificationType |-> None,
    originalPurchaseDate |-> Undefined, firstPurchaseDate |-> Undefined,
    lastPurchaseDate |-> Undefined ]

getSubscriptionStateKey(originalTransactionId) ==
  <<"appstore:subscription", originalTransactionId>>

(***************************************************************************)
(* What the store holds under a key is nothing (redis.get gives null), a   *)
(* text that is no JSON, JSON of something that is no object, or JSON of   *)
(* an object; the store keeps it until its time to live has run out.  A    *)
(* member of the object is missing or holds null, a boolean, a number or a *)
(* string.  A number is a timestamp value (a count n is At(0, n)); a       *)
(* string carries what Number() makes of it.                               *)
(***************************************************************************)
JsonValue(type, bool, num, text) ==
  [type |-> type, bool |-> bool, num |-> num, text |-> text]

JsonMissing == JsonValue("missing", FALSE, Undefined, "")

JsonNull == JsonValue("null", FALSE, Undefined, "")

JsonBoolean(b) == JsonValue("boolean", b, Undefined, "")

\* JSON.stringify of a number member: undefined is left out, a number that
\* is not finite becomes null
JsonNumber(value) ==
  IF value.kind = "undefined" THEN JsonMissing
  ELSE IF value.kind = "nan" THEN JsonNull
  ELSE JsonValue("number", FALSE, value, "")

\* Number(text) for the strings of the model: a decimal numeral gives its
\* number, the empty string gives 0, any other text gives NaN
NumberOf(text) ==
  CASE text = "" -> At(0, 0)
    [] text = "0" -> At(0, 0)
    [] text = "1" -> At(0, 1)
    [] text = "1700000000000" -> At(19675, 80000000)
    [] OTHER -> NaN

JsonString(text) == JsonValue("string", FALSE, NumberOf(text), text)

\* an object with the members of a SubscriptionState
JsonObject(sawFreeTrial, didRenewCount, notificationCount, firstSeenAt, updatedAt, firstNotificationType, lastNotificationType, originalPurchaseDate, firstPurchaseDate, lastPurchaseDate) ==
  [ sawFreeTrial |-> sawFreeTrial,
    didRenewCount |-> didRenewCount,
    notificationCount |-> notificationCount,
    firstSeenAt |-> firstSeenAt,
    updatedAt |-> updatedAt,
    firstNotificationType |-> firstNotificationType,
    lastNotificationType |-> lastNotificationType,
    originalPurchaseDate |-> originalPurchaseDate,
    firstPurchaseDate |-> firstPurchaseDate,
    lastPurchaseDate |-> lastPurchaseDate ]

\* {}
EmptyObject ==
  JsonObject(JsonMissing, JsonMissing, JsonMissing, JsonMissing, JsonMissing,
             JsonMissing, JsonMissing, JsonMissing, JsonMissing, JsonMissing)

AbsentRaw == [kind |-> "absent", object |-> EmptyObject, expires |-> 0]

\* JSON.stringify(nextState)
stringifyState(state) ==
  [ kind |-> "json",
    object |-> JsonObject(JsonBoolean(state.sawFreeTrial),
                          JsonNumber(At(0, state.didRenewCount)),
                          JsonNumber(At(0, state.notificationCount)),
                          JsonNumber(state.firstSeenAt),
                          JsonNumber(state.updatedAt),
                          JsonString(state.firstNotificationType),
                          JsonString(state.lastNotificationType),
                          JsonNumber(state.originalPurchaseDate),
                          JsonNumber(state.firstPurchaseDate),
                          JsonNumber(state.lastPurchaseDate)) ]

OriginalTransactionIds == {"otx-1", "otx-2"}

SubscriptionKeys == { getSubscriptionStateKey(o) : o \in OriginalTransactionIds }

\* redis.get(stateKey) at time t
redisGet(kv, key, t) ==
  IF kv[key].kind # "absent" /\ kv[key].expires > t
  THEN [kind |-> kv[key].kind, object |-> kv[key].object]
  ELSE [kind |-> "absent", object |-> EmptyObject]

\* redis.set(stateKey, value, {ex}) at time t
redisSetEx(kv, key, value, ex, t) ==
  [kv EXCEPT ![key] = [kind |-> value.kind, object |-> value.object,
                        expires |-> t + ex]]

\* optionalFiniteNumber: a finite number, or a string that Number() turns
\* into a finite number; undefined otherwise
optionalFiniteNumber(value) ==
  IF value.type \in {"number", "string"} /\ IsFiniteNumber(value.num)
  THEN value.num
  ELSE Undefined

\* a count as the integer it is
CountOf(value) == value.days * ONE_DAY_IN_MS + value.ms

\* mutant: a state with a member missing is completed with defaults
parseSubscriptionState_Lenient(raw) ==
  IF raw.kind # "json" THEN NoState
  ELSE
    LET value == raw.object
        number(member) ==
          IF IsFiniteNumber(optionalFiniteNumber(member))
          THEN optionalFiniteNumber(member) ELSE At(0, 0)
        string(member) ==
          IF member.type = "string" /\ member.text # "" THEN member.text ELSE "UNKNOWN"
    IN SubscriptionState(value.sawFreeTrial.type = "boolean" /\ value.sawFreeTrial.bool,
                         CountOf(number(value.didRenewCount)),
                         CountOf(number(value.notificationCount)),
                         number(value.firstSeenAt), number(value.updatedAt),
                         string(value.firstNotificationType),
                         string(value.lastNotificationType),
                         optionalFiniteNumber(value.originalPurchaseDate),
                         optionalFiniteNumber(value.firstPurchaseDate),
                         optionalFiniteNumber(value.lastPurchaseDate))

\* parseSubscriptionState: null for nothing, for a text JSON.parse rejects
\* ("text"), for what is no object ("scalar") and for an object without a
\* boolean sawFreeTrial, finite firstSeenAt, updatedAt, didRenewCount and
\* notificationCount and non-empty string notification types
parseSubscriptionState(raw) ==
  IF raw.kind # "json" THEN NoState
  ELSE
    LET value == raw.object
        firstSeenAt == optionalFiniteNumber(value.firstSeenAt)
        updatedAt == optionalFiniteNumber(value.updatedAt)
        didRenewCount == optionalFiniteNumber(value.didRenewCount)
        notificationCount == optionalFiniteNumber(value.notificationCount)
        firstNotificationType ==
          IF value.firstNotificationType.type = "string"
          THEN value.firstNotificationType.text ELSE None
        lastNotificationType ==
          IF value.lastNotificationType.type = "string"
          THEN value.lastNotificationType.text ELSE None
    IN IF \/ value.sawFreeTrial.type # "boolean"
          \/ firstSeenAt = Undefined
          \/ updatedAt = Undefined
          \/ didRenewCount = Undefined
          \/ notificationCount = Undefined
          \/ firstNotificationType \in {None, ""}
          \/ lastNotificationType \in {None, ""}
       THEN NoState
       ELSE SubscriptionState(value.sawFreeTrial.bool,
                              CountOf(didRenewCount), CountOf(notificationCount),
                              firstSeenAt, updatedAt,
                              firstNotificationType, lastNotificationType,
                              optionalFiniteNumber(value.originalPurchaseDate),
                              optionalFiniteNumber(value.firstPurchaseDate),
                              optionalFiniteNumber(value.lastPurchaseDate))

hasFreeTrial(transactionInfo) == transactionInfo.offerDiscountType = "FREE_TRIAL"

\* mutant: the gap is counted in whole days
isLikelyFirstPaidAfterTrialByDates_WholeDays(transactionInfo) ==
  IF \/ ~IsFiniteNumber(transactionInfo.purchaseDate)
     \/ ~IsFiniteNumber(transactionInfo.originalPurchaseDate)
  THEN FALSE
  ELSE LET deltaMs == Minus(transactionInfo.purchaseDate,
                            transactionInfo.originalPurchaseDate)
       IN IF deltaMs.days < 0 \/ (deltaMs.days = 0 /\ deltaMs.ms = 0)
          THEN FALSE
          ELSE deltaMs.days >= 5 /\ deltaMs.days <= 14

\* deltaDays = deltaMs / ONE_DAY_IN_MS is deltaMs.days plus a fraction below
\* one, which is zero exactly when deltaMs.ms is
isLikelyFirstPaidAfterTrialByDates(transactionInfo) ==
  IF \/ ~IsFiniteNumber(transactionInfo.purchaseDate)
     \/ ~IsFiniteNumber(transactionInfo.originalPurchaseDate)
  THEN FALSE
  ELSE LET deltaMs == Minus(transactionInfo.purchaseDate,
                            transactionInfo.originalPurchaseDate)
       IN IF deltaMs.days < 0 \/ (deltaMs.days = 0 /\ deltaMs.ms = 0)
          THEN FALSE
          ELSE /\ deltaMs.days >= 5
               /\ (deltaMs.days < 14 \/ (deltaMs.days = 14 /\ deltaMs.ms = 0))

\* mutant: the renewal count of the previous state is not looked at
determineLifecycleHint_AnyTrialSeen(notificationType, transactionInfo, previousState) ==
  IF notificationType = "SUBSCRIBED" /\ hasFreeTrial(transactionInfo)
  THEN "TRIAL_START"
  ELSE IF notificationType # "DID_RENEW" THEN None
  ELSE IF \/ (previousState.present /\ previousState.sawFreeTrial)
          \/ isLikelyFirstPaidAfterTrialByDates(transactionInfo)
  THEN "FIRST_PAID_AFTER_TRIAL"
  ELSE "RENEWAL"

\* mutant: the first two renewals after a trial count as first paid ones
determineLifecycleHint_UntilSecondRenewal(notificationType, transactionInfo, previousState) ==
  IF notificationType = "SUBSCRIBED" /\ hasFreeTrial(transactionInfo)
  THEN "TRIAL_START"
  ELSE IF notificationType # "DID_RENEW" THEN None
  ELSE
    LET didRenewCount == IF previousState.present THEN previousState.didRenewCount ELSE 0
        previousEventWasTrial ==
          previousState.present /\ previousState.sawFreeTrial /\ didRenewCount <= 1
    IN IF previousEventWasTrial \/ isLikelyFirstPaidAfterTrialByDates(transactionInfo)
       THEN "FIRST_PAID_AFTER_TRIAL"
       ELSE "RENEWAL"

\* None is "undefined" (no hint)
determineLifecycleHint(notificationType, transactionInfo, previousState) ==
  IF notificationType = "SUBSCRIBED" /\ hasFreeTrial(transactionInfo)
  THEN "TRIAL_START"
  ELSE IF notificationType # "DID_RENEW" THEN None
  ELSE
    LET didRenewCount == IF previousState.present THEN previousState.didRenewCount ELSE 0
        previousEventWasTrial ==
          previousState.present /\ previousState.sawFreeTrial /\ didRenewCount = 0
    IN IF previousEventWasTrial \/ isLikelyFirstPaidAfterTrialByDates(transactionInfo)
       THEN "FIRST_PAID_AFTER_TRIAL"
       ELSE "RENEWAL"

\* a ?? b
Coalesce(a, b) == IF a.kind = "undefined" THEN b ELSE a

\* the state determineSubscriptionLifecycleHint writes (lines 498-523);
\* dateNow is Date.now()
\* Date.now() at t seconds of the model's clock
DateNow(t) == At(t \div (24 * 60 * 60), (t % (24 * 60 * 60)) * 1000)

\* mutant: the renewal count starts over with every write
nextState_CountFromZero(notificationType, transactionInfo, previousState, lifecycleHint, dateNow) ==
  SubscriptionState(
    \/ (previousState.present /\ previousState.sawFreeTrial)
    \/ hasFreeTrial(transactionInfo)
    \/ lifecycleHint = "FIRST_PAID_AFTER_TRIAL",
    IF notificationType = "DID_RENEW" THEN 1 ELSE 0,
    (IF previousState.present THEN previousState.notificationCount ELSE 0) + 1,
    IF previousState.present THEN previousState.firstSeenAt ELSE dateNow,
    dateNow,
    IF previousState.present THEN previousState.firstNotificationType
    ELSE notificationType,
    notificationType,
    Coalesce(transactionInfo.originalPurchaseDate, previousState.originalPurchaseDate),
    Coalesce(previousState.firstPurchaseDate,
             IF IsFiniteNumber(transactionInfo.purchaseDate)
             THEN transactionInfo.purchaseDate ELSE Undefined),
    IF IsFiniteNumber(transactionInfo.purchaseDate) THEN transactionInfo.purchaseDate
    ELSE previousState.lastPurchaseDate)

\* mutant: the first-seen fields are taken from every event
nextState_FirstFromEvent(notificationType, transactionInfo, previousState, lifecycleHint, dateNow) ==
  LET purchaseDate == transactionInfo.purchaseDate
  IN SubscriptionState(
       \/ (previousState.present /\ previousState.sawFreeTrial)
       \/ hasFreeTrial(transactionInfo)
       \/ lifecycleHint = "FIRST_PAID_AFTER_TRIAL",
       (IF previousState.present THEN previousState.didRenewCount ELSE 0)
         + (IF notificationType = "DID_RENEW" THEN 1 ELSE 0),
       (IF previousState.present THEN previousState.notificationCount ELSE 0) + 1,
       dateNow,
       dateNow,
       notificationType,
       notificationType,
       Coalesce(transactionInfo.originalPurchaseDate, previousState.originalPurchaseDate),
       IF IsFiniteNumber(purchaseDate) THEN purchaseDate ELSE Undefined,
       IF IsFiniteNumber(purchaseDate) THEN purchaseDate
       ELSE previousState.lastPurchaseDate)

\* mutant: the last-seen fields are written once and kept
nextState_LastKept(notificationType, transactionInfo, previousState, lifecycleHint, dateNow) ==
  LET purchaseDate == transactionInfo.purchaseDate
  IN SubscriptionState(
       \/ (previousState.present /\ previousState.sawFreeTrial)
       \/ hasFreeTrial(transactionInfo)
       \/ lifecycleHint = "FIRST_PAID_AFTER_TRIAL",
       (IF previousState.present THEN previousState.didRenewCount ELSE 0)
         + (IF notificationType = "DID_RENEW" THEN 1 ELSE 0),
       (IF previousState.present THEN previousState.notificationCount ELSE 0) + 1,
       IF previousState.present THEN previousState.firstSeenAt ELSE dateNow,
       IF previousState.present THEN previousState.updatedAt ELSE dateNow,
       IF previousState.present THEN previousState.firstNotificationType
       ELSE notificationType,
       IF previousState.present THEN previousState.lastNotificationType
       ELSE notificationType,
       Coalesce(transactionInfo.originalPurchaseDate, previousState.originalPurchaseDate),
       Coalesce(previousState.firstPurchaseDate,
                IF IsFiniteNumber(purchaseDate) THEN purchaseDate ELSE Undefined),
       Coalesce(previousState.lastPurchaseDate,
                IF IsFiniteNumber(purchaseDate) THEN purchaseDate ELSE Undefined))

\* mutant: a trial seen earlier is forgotten
nextState_TrialOfEventOnly(notificationType, transactionInfo, previousState, lifecycleHint, dateNow) ==
  LET purchaseDate == transactionInfo.purchaseDate
  IN SubscriptionState(
       \/ hasFreeTrial(transactionInfo)
       \/ lifecycleHint = "FIRST_PAID_AFTER_TRIAL",
       (IF previousState.present THEN previousState.didRenewCount ELSE 0)
         + (IF notificationType = "DID_RENEW" THEN 1 ELSE 0),
       (IF previousState.present THEN previousState.notificationCount ELSE 0) + 1,
       IF previousState.present THEN previousState.firstSeenAt ELSE dateNow,
       dateNow,
       IF previousState.present THEN previousState.firstNotificationType
       ELSE notificationType,
       notificationType,
       Coalesce(transactionInfo.originalPurchaseDate, previousState.originalPurchaseDate),
       Coalesce(previousState.firstPurchaseDate,
                IF IsFiniteNumber(purchaseDate) THEN purchaseDate ELSE Undefined),
       IF IsFiniteNumber(purchaseDate) THEN purchaseDate
       ELSE previousState.lastPurchaseDate)

\* mutant: every event counts as a renewal
nextState_CountEveryEvent(notificationType, transactionInfo, previousState, lifecycleHint, dateNow) ==
  LET purchaseDate == transactionInfo.purchaseDate
  IN SubscriptionState(
       \/ (previousState.present /\ previousState.sawFreeTrial)
       \/ hasFreeTrial(transactionInfo)
       \/ lifecycleHint = "FIRST_PAID_AFTER_TRIAL",
       (IF previousState.present THEN previousState.didRenewCount ELSE 0)
         + 1,
       (IF previousState.present THEN previousState.notificationCount ELSE 0) + 1,
       IF previousState.present THEN previousState.firstSeenAt ELSE dateNow,
       dateNow,
       IF previousState.present THEN previousState.firstNotificationType
       ELSE notificationType,
       notificationType,
       Coalesce(transactionInfo.originalPurchaseDate, previousState.originalPurchaseDate),
       Coalesce(previousState.firstPurchaseDate,
                IF IsFiniteNumber(purchaseDate) THEN purchaseDate ELSE Undefined),
       IF IsFiniteNumber(purchaseDate) THEN purchaseDate
       ELSE previousState.lastPurchaseDate)

nextState(notificationType, transactionInfo, previousState, lifecycleHint, dateNow) ==
  LET purchaseDate == transactionInfo.purchaseDate
  IN SubscriptionState(
       \/ (previousState.present /\ previousState.sawFreeTrial)
       \/ hasFreeTrial(transactionInfo)
       \/ lifecycleHint = "FIRST_PAID_AFTER_TRIAL",
       (IF previousState.present THEN previousState.didRenewCount ELSE 0)
         + (IF notificationType = "DID_RENEW" THEN 1 ELSE 0),
       (IF previousState.present THEN previousState.notificationCount ELSE 0) + 1,
       IF previousState.present THEN previousState.firstSeenAt ELSE dateNow,
       dateNow,
       IF previousState.present THEN previousState.firstNotificationType
       ELSE notificationType,
       notificationType,
       Coalesce(transactionInfo.originalPurchaseDate, previousState.originalPurchaseDate),
       Coalesce(previousState.firstPurchaseDate,
                IF IsFiniteNumber(purchaseDate) THEN purchaseDate ELSE Undefined),
       IF IsFiniteNumber(purchaseDate) THEN purchaseDate
       ELSE previousState.lastPurchaseDate)

\* a call of determineSubscriptionLifecycleHint: where it stands ("idle",
\* "get": awaiting redis.get, "set": awaiting redis.set, "done", "failed"),
\* its arguments, the state it read, the time it took and its result
HintCall(pos, notificationType, transactionInfo, previousState, dateNow, lifecycleHint) ==
  [ pc |-> pos, notificationType |-> notificationType,
    transactionInfo |-> transactionInfo, previousState |-> previousState,
    dateNow |-> dateNow, lifecycleHint |-> lifecycleHint ]

NoHintCall == HintCall("idle", None, NoTransactionInfo, NoState, Undefined, None)

\* mutant: the store is read whatever the transaction info holds
startHint_AlwaysReads(notificationType, transactionInfo) ==
  HintCall("get", notificationType, transactionInfo, NoState, Undefined, None)

\* lines 482-490: up to the await of redis.get; without an
\* originalTransactionId the call returns undefined at once
startHint(notificationType, transactionInfo) ==
  HintCall(IF transactionInfo.originalTransactionId \in {None, ""} THEN "done" ELSE "get",
           notificationType, transactionInfo, NoState, Undefined, None)

\* lines 490-525: redis.get settles with the value raw at time t (getOk =
\* FALSE: it rejects, and so does the call); the hint and Date.now() are
\* taken and redis.set is called
afterGet(call, getOk, raw, t) ==
  IF ~getOk THEN [call EXCEPT !.pc = "failed"]
  ELSE LET previousState == parseSubscriptionState(raw)
       IN [ call EXCEPT
              !.pc = "set",
              !.previousState = previousState,
              !.lifecycleHint = determineLifecycleHint(call.notificationType,
                                                       call.transactionInfo,
                                                       previousState),
              !.dateNow = DateNow(t) ]

\* the value the call hands to redis.set
stateToWrite(call) ==
  stringifyState(nextState(call.notificationType, call.transactionInfo,
                           call.previousState, call.lifecycleHint, call.dateNow))

\* mutant: the hint is taken from the state that has been written
afterSet_HintOfWrittenState(call, setOk) ==
  IF setOk
  THEN [call EXCEPT
          !.pc = "done",
          !.lifecycleHint =
            determineLifecycleHint(call.notificationType, call.transactionInfo,
                                   nextState(call.notificationType, call.transactionInfo,
                                             call.previousState, call.lifecycleHint,
                                             call.dateNow))]
  ELSE [call EXCEPT !.pc = "failed", !.lifecycleHint = None]

\* lines 525-529: redis.set settles (setOk = FALSE: it rejects, and so does
\* the call), the hint is returned
afterSet(call, setOk) ==
  IF setOk THEN [call EXCEPT !.pc = "done"]
  ELSE [call EXCEPT !.pc = "failed", !.lifecycleHint = None]

\* mutant: the write merges the event into the state the store holds at the
\* write (an atomic update)
storeAfterSet_Serialized(kv, call, setOk, t) ==
  IF setOk
  THEN LET key == getSubscriptionStateKey(call.transactionInfo.originalTransactionId)
       IN redisSetEx(kv, key,
                     stringifyState(nextState(call.notificationType,
                                              call.transactionInfo,
                                              parseSubscriptionState(redisGet(kv, key, t)),
                                              call.lifecycleHint, call.dateNow)),
                     SUBSCRIPTION_STATE_TTL_SECONDS, t)
  ELSE kv

\* the subscription store after the redis.set of the call, at time t
storeAfterSet(kv, call, setOk, t) ==
  IF setOk
  THEN redisSetEx(kv, getSubscriptionStateKey(call.transactionInfo.originalTransactionId),
                  stateToWrite(call), SUBSCRIPTION_STATE_TTL_SECONDS, t)
  ELSE kv

(***************************************************************************)
(* messageBuilder.ts (src/unnamed/part_001:1-93)                           *)
(***************************************************************************)
\* "n/a" for a missing id, the id itself up to 12 characters, else its first
\* 6 characters, "..." and its last 4
shortTransactionId(transactionId) ==
  IF Len(transactionId) = 0 THEN <<"n", "/", "a">>
  ELSE IF Len(transactionId) <= 12 THEN transactionId
  ELSE SubSeq(transactionId, 1, 6) \o <<".", ".", ".">>
       \o SubSeq(transactionId, Len(transactionId) - 3, Len(transactionId))

\* the fraction digits of n thousandths, without trailing zeros
FractionDigits(n) ==
  LET digits == << n \div 100, (n \div 10) % 10, n % 10 >>
  IN IF n = 0 THEN << >>
     ELSE IF n % 10 # 0 THEN digits
     ELSE IF n % 100 # 0 THEN SubSeq(digits, 1, 2)
     ELSE SubSeq(digits, 1, 1)

\* "n/a"
NoAmount == [whole |-> 0, fraction |-> << >>, currency |-> None, present |-> FALSE]

\* mutant: the price is printed as it comes, in milliunits
formatAmount_Milliunits(price, currency) ==
  IF price = NoPrice \/ price = NonFinitePrice THEN NoAmount
  ELSE [whole |-> price, fraction |-> << >>, currency |-> currency, present |-> TRUE]

\* price / 1000 with at most 3 fraction digits and no grouping, then the
\* currency if there is one
formatAmount(price, currency) ==
  IF price = NoPrice \/ price = NonFinitePrice THEN NoAmount
  ELSE [ whole |-> price \div 1000, fraction |-> FractionDigits(price % 1000),
         currency |-> currency, present |-> TRUE ]

MessageInput(action, appBundleId, notificationType, subtype, environment, productId, transactionId, transactionReason, offerDiscountType, subscriptionLifecycle, price, currency) ==
  [ action |-> action, appBundleId |-> appBundleId,
    notificationType |-> notificationType, subtype |-> subtype,
    environment |-> environment, productId |-> productId,
    transactionId |-> transactionId, transactionReason |-> transactionReason,
    offerDiscountType |-> offerDiscountType,
    subscriptionLifecycle |-> subscriptionLifecycle,
    price |-> price, currency |-> currency ]

\* `key=value`
Part(key, value) == [key |-> key, value |-> value]

\* a part that is pushed only if its value is a non-empty string
OptionalPart(key, value) ==
  IF value # None /\ value # "" THEN << Part(key, value) >> ELSE << >>

\* mutant: the lifecycle hint is not put into the message
buildPushoverMessage_NoLifecycle(input) ==
  [ title |-> IF input.action = "PURCHASE" THEN "In-App Kauf" ELSE "Refund",
    parts |->
      << Part("app", input.appBundleId),
         Part("type", input.notificationType),
         Part("product", IF input.productId = None THEN "n/a" ELSE input.productId),
         Part("env", input.environment),
         Part("tx", shortTransactionId(input.transactionId)) >>
      \o OptionalPart("subtype", input.subtype)
      \o OptionalPart("reason", input.transactionReason)
      \o OptionalPart("offer", input.offerDiscountType)
      \o (IF formatAmount(input.price, input.currency).present
          THEN << Part("amount", formatAmount(input.price, input.currency)) >>
          ELSE << >>) ]

\* the message is the sequence of its parts, which the code joins by " | "
buildPushoverMessage(input) ==
  [ title |-> IF input.action = "PURCHASE" THEN "In-App Kauf" ELSE "Refund",
    parts |->
      << Part("app", input.appBundleId),
         Part("type", input.notificationType),
         Part("product", IF input.productId = None THEN "n/a" ELSE input.productId),
         Part("env", input.environment),
         Part("tx", shortTransactionId(input.transactionId)) >>
      \o OptionalPart("subtype", input.subtype)
      \o OptionalPart("reason", input.transactionReason)
      \o OptionalPart("offer", input.offerDiscountType)
      \o OptionalPart("lifecycle", input.subscriptionLifecycle)
      \o (IF formatAmount(input.price, input.currency).present
          THEN << Part("amount", formatAmount(input.price, input.currency)) >>
          ELSE << >>) ]

(***************************************************************************)
(* webhookHandler.ts                                                       *)
(***************************************************************************)
\* a query parameter as the host hands it over: a string, an array, or absent
QueryString(s) == [kind |-> "string", items |-> <<s>>]
QueryArray(items) == [kind |-> "array", items |-> items]
QueryAbsent == [kind |-> "absent", items |-> <<>>]

readQueryParam(value) ==
  IF value.kind = "string" THEN value.items[1]
  ELSE IF value.kind = "array" /\ Len(value.items) > 0 THEN value.items[1]
  ELSE None

\* a request body: an object, a string holding the JSON text of an object,
\* a string that is no JSON, or nothing; the signedPayload member is an
\* envelope string, a blank string, or missing
Body(kind, member, envelope) ==
  [kind |-> kind, member |-> member, envelope |-> envelope]

\* null is [present |-> FALSE]: the body is no object (nor the JSON text of
\* one), or its signedPayload member is missing, no string, or blank
getSignedPayload(body) ==
  IF body.kind \in {"object", "json_string"} /\ body.member = "string"
  THEN [present |-> TRUE, payload |-> body.envelope]
  ELSE [present |-> FALSE, payload |-> NoEnvelope]

Response(status, ok, tag) == [status |-> status, ok |-> ok, tag |-> tag]

NoResponse == Response(0, FALSE, "<unwritten>")

\* mutant: the payload is looked at before the secret
gateRequest_PayloadFirst(request, cfgOk) ==
  IF request.method # "POST"
  THEN [proceed |-> FALSE, response |-> Response(405, FALSE, "method_not_allowed")]
  ELSE IF ~cfgOk
  THEN [proceed |-> FALSE, response |-> Response(500, FALSE, "invalid_configuration")]
  ELSE IF ~getSignedPayload(request.body).present
  THEN [proceed |-> FALSE, response |-> Response(400, FALSE, "invalid_payload")]
  ELSE IF readQueryParam(request.secret) # Config.webhookSecret
  THEN [proceed |-> FALSE, response |-> Response(404, FALSE, "not_found")]
  ELSE [proceed |-> TRUE, response |-> NoResponse]

\* lines 126-152: everything before the first await.  cfgOk = FALSE is
\* loadConfig throwing.
gateRequest(request, cfgOk) ==
  IF request.method # "POST"
  THEN [proceed |-> FALSE, response |-> Response(405, FALSE, "method_not_allowed")]
  ELSE IF ~cfgOk
  THEN [proceed |-> FALSE, response |-> Response(500, FALSE, "invalid_configuration")]
  ELSE IF readQueryParam(request.secret) # Config.webhookSecret
  THEN [proceed |-> FALSE, response |-> Response(404, FALSE, "not_found")]
  ELSE IF ~getSignedPayload(request.body).present
  THEN [proceed |-> FALSE, response |-> Response(400, FALSE, "invalid_payload")]
  ELSE [proceed |-> TRUE, response |-> NoResponse]

\* mutant: a failed verification is answered with a status of its own
afterVerify_Unauthorized(verifyOk, notificationType) ==
  IF ~verifyOk
  THEN [next |-> "done", response |-> Response(401, FALSE, "unauthorized")]
  ELSE IF classifyNotificationType(notificationType) = "IGNORE"
  THEN [next |-> "done", response |-> Response(200, TRUE, "ignored")]
  ELSE [next |-> "mark", response |-> NoResponse]

\* mutant: a failed verification is answered like a failed dependency
afterVerify_AsInternalError(verifyOk, notificationType) ==
  IF ~verifyOk
  THEN [next |-> "done", response |-> Response(500, FALSE, "internal_error")]
  ELSE IF classifyNotificationType(notificationType) = "IGNORE"
  THEN [next |-> "done", response |-> Response(200, TRUE, "ignored")]
  ELSE [next |-> "mark", response |-> NoResponse]

\* lines 154-171: what follows the await of verifyNotification
\* mutant: the classification is not looked at before the ledger is asked
afterVerify_MarkIgnored(verifyOk, notificationType) ==
  IF ~verifyOk
  THEN [next |-> "done", response |-> Response(400, FALSE, "invalid_signature")]
  ELSE [next |-> "mark", response |-> NoResponse]

afterVerify(verifyOk, notificationType) ==
  IF ~verifyOk
  THEN [next |-> "done", response |-> Response(400, FALSE, "invalid_signature")]
  ELSE IF classifyNotificationType(notificationType) = "IGNORE"
  THEN [next |-> "done", response |-> Response(200, TRUE, "ignored")]
  ELSE [next |-> "mark", response |-> NoResponse]

\* mutant: a store failure is taken for "not a duplicate"
afterMark_FailOpen(storeOk, isNew) ==
  IF storeOk /\ ~isNew
  THEN [next |-> "done", response |-> Response(200, TRUE, "deduped")]
  ELSE [next |-> "send", response |-> NoResponse]

\* mutant: a duplicate is acknowledged as deduped but pushed all the same
afterMark_PushDuplicate(storeOk, isNew) ==
  IF ~storeOk
  THEN [next |-> "done", response |-> Response(500, FALSE, "internal_error")]
  ELSE [next |-> "send", response |-> NoResponse]

\* lines 173-183 and the catch of 202-205: what follows the await of
\* markNotificationAsNew.  storeOk = FALSE is the store call throwing.
afterMark(storeOk, isNew) ==
  IF ~storeOk
  THEN [next |-> "done", response |-> Response(500, FALSE, "internal_error")]
  ELSE IF ~isNew
  THEN [next |-> "done", response |-> Response(200, TRUE, "deduped")]
  ELSE [next |-> "send", response |-> NoResponse]

\* mutant: a failed lifecycle inference ends the request like a failed
\* dependency
afterInfer_FailClosed(inferOk, lifecycleHint) ==
  IF inferOk
  THEN [next |-> "send", response |-> NoResponse, subscriptionLifecycle |-> lifecycleHint]
  ELSE [ next |-> "done", response |-> Response(500, FALSE, "internal_error"),
         subscriptionLifecycle |-> None ]

\* What follows the await of determineSubscriptionLifecycleHint: the hint
\* decorates the message when there is one; inferOk = FALSE is the inference
\* rejecting, which is logged and does not keep the message from being sent.
afterInfer(inferOk, lifecycleHint) ==
  [ next |-> "send", response |-> NoResponse,
    subscriptionLifecycle |-> IF inferOk THEN lifecycleHint ELSE None ]

\* lines 196-199: the PushoverTarget handed to sendPushover
pushoverTarget(verifiedNotification) ==
  [ userKey |-> verifiedNotification.pushoverUserKey,
    device |-> verifiedNotification.pushoverDevice ]

\* lines 185-199: the input of buildPushoverMessage and the target of
\* sendPushover, with the diagnostics of the notification and the hint
pushoverCall(verifiedNotification, subscriptionLifecycle) ==
  LET built ==
        buildPushoverMessage(
          MessageInput(classifyNotificationType(verifiedNotification.notificationType),
                       verifiedNotification.bundleId,
                       verifiedNotification.notificationType,
                       verifiedNotification.subtype,
                       verifiedNotification.environment,
                       verifiedNotification.transactionInfo.productId,
                       verifiedNotification.transactionInfo.transactionId,
                       verifiedNotification.transactionInfo.transactionReason,
                       verifiedNotification.transactionInfo.offerDiscountType,
                       subscriptionLifecycle,
                       verifiedNotification.transactionInfo.price,
                       verifiedNotification.transactionInfo.currency))
  IN [ title |-> built.title, parts |-> built.parts,
       userKey |-> pushoverTarget(verifiedNotification).userKey,
       device |-> pushoverTarget(verifiedNotification).device ]

\* mutant: the key of a notification whose push failed is deleted
storeAfterSend_Rollback(store, notificationUUID, pushOk) ==
  IF pushOk THEN store ELSE [store EXCEPT ![getDedupeKey(notificationUUID)] = 0]

\* lines 196-205: neither the lines after sendPushover nor the catch block
\* touch the ledger
storeAfterSend(store, notificationUUID, pushOk) == store

\* mutant: the catch is missing, a failed push is answered like a sent one
afterSend_Swallow(pushOk) == Response(200, TRUE, None)

\* mutant: the success response carries the wrong status
afterSend_Accepted(pushOk) ==
  IF pushOk THEN Response(202, TRUE, None)
  ELSE Response(500, FALSE, "internal_error")

\* lines 196-205: what follows the await of sendPushover.  pushOk = FALSE
\* is sendPushoverNotification throwing (no 2xx from the Pushover API).
afterSend(pushOk) ==
  IF pushOk THEN Response(200, TRUE, None)
  ELSE Response(500, FALSE, "internal_error")

(***************************************************************************)
(* State                                                                   *)
(***************************************************************************)
VARIABLES
  now,            \* wall clock of the store, in seconds
  store,          \* Redis: dedup key -> expiry time (0: never set)
  verifierCache,  \* the entries of the process-wide verifierCache map
  pc,             \* per invocation: "idle", "verify", "mark", "marked", "infer",
                  \* "send", "done"
  req,            \* per invocation: the request it was given
  retryOf,        \* per invocation: the invocation whose 500 it retries, or 0
  verified,       \* per invocation: the VerifiedNotification, once verified
  dedupe,         \* per invocation: outcome of markNotificationAsNew
  markedAt,       \* per invocation: store time of its SET NX EX, or -1
  push,           \* per invocation: outcome of sendPushover
  resp,           \* per invocation: the response written
  calls,          \* per invocation: calls of each dependency, responses written
  cfg,            \* per invocation: outcome of loadConfig
  markLog,        \* SpecLedger: the calls of markNotificationAsNew, in order
  verifyError,    \* per invocation: the error verifyNotification threw, if any
  applied,        \* SpecFunctions: the last application of a function
  subs,           \* Redis: subscription key -> stored value and expiry time
  hintCall,       \* SpecLifecycle: the calls of
                  \* determineSubscriptionLifecycleHint
  hint,           \* per invocation: its lifecycle inference
  message         \* per invocation: what it passed to sendPushover

vars == << now, store, verifierCache, pc, req, retryOf, verified, dedupe,
           markedAt, push, resp, calls, cfg, markLog, verifyError,
                     applied, subs, hintCall, hint, message >>

Request(method, secret, body) == [method |-> method, secret |-> secret, body |-> body]

NoRequest == Request(None, QueryAbsent, Body("absent", "missing", NoEnvelope))

\* a POST to the right URL with the envelope in a JSON body
Delivery(envelope) ==
  Request("POST", QueryString(Config.webhookSecret), Body("object", "string", envelope))

\* requests of the pipeline specification: every envelope delivered properly,
\* and one request stopped at each gate
RequestInputs ==
  { Delivery(e) : e \in Envelopes } \cup
  { Request("GET", QueryString(Config.webhookSecret),
            Body("object", "string", CHOOSE e \in Envelopes : e.genuine)),
    Request("POST", QueryString("wrong-secret"),
            Body("object", "string", CHOOSE e \in Envelopes : e.genuine)),
    Request("POST", QueryString(Config.webhookSecret),
            Body("object", "missing", NoEnvelope)),
    Request("POST", QueryAbsent, Body("absent", "missing", NoEnvelope)),
    Request("POST", QueryArray(<<Config.webhookSecret, "wrong-secret">>),
            Body("text", "missing", NoEnvelope)),
    Request("POST", QueryString(Config.webhookSecret),
            Body("json_string", "blank", NoEnvelope)) }

NoCalls == [verify |-> 0, mark |-> 0, push |-> 0, respond |-> 0]

\* an application of a function: its arguments and its result
Application(fn, notificationType, transactionInfo, previousState, result) ==
  [ fn |-> fn, notificationType |-> notificationType,
    transactionInfo |-> transactionInfo, previousState |-> previousState,
    result |-> result ]

NoApplication == Application(None, None, NoTransactionInfo, NoState, None)

NoMessage == [title |-> None, parts |-> << >>, userKey |-> None, device |-> None]

\* a process that has handled nothing yet
InitProcess ==
  /\ now = 0
  /\ store = [k \in DedupeKeys |-> 0]
  /\ verifierCache = {}
  /\ pc = [r \in Reqs |-> "idle"]
  /\ req = [r \in Reqs |-> NoRequest]
  /\ retryOf = [r \in Reqs |-> 0]
  /\ verified = [r \in Reqs |-> NoVerified]
  /\ dedupe = [r \in Reqs |-> "none"]
  /\ markedAt = [r \in Reqs |-> -1]
  /\ push = [r \in Reqs |-> "none"]
  /\ resp = [r \in Reqs |-> NoResponse]
  /\ calls = [r \in Reqs |-> NoCalls]
  /\ cfg = [r \in Reqs |-> "none"]
  /\ markLog = << >>
  /\ verifyError = [r \in Reqs |-> None]
  /\ hintCall = [c \in HintCalls |-> NoHintCall]
  /\ hint = [r \in Reqs |-> NoHintCall]
  /\ message = [r \in Reqs |-> NoMessage]

\* ... and stores that hold nothing
Init ==
  /\ InitProcess
  /\ applied = NoApplication
  /\ subs = [k \in SubscriptionKeys |-> AbsentRaw]

InFlight(r) == pc[r] \in {"verify", "mark", "marked", "infer", "send"}

\* responseJson
Respond(r, response) ==
  /\ resp' = [resp EXCEPT ![r] = response]
  /\ calls' = [calls EXCEPT ![r].respond = @ + 1]

(***************************************************************************)
(* The handler, one action per stretch between two awaits                  *)
(***************************************************************************)
\* webhookHandler up to the call of verifyNotification (lines 126-156)
Begin(r, request, retried, cfgOk) ==
  LET gate == gateRequest(request, cfgOk)
  IN /\ pc[r] = "idle"
     /\ \A q \in Reqs : q < r => pc[q] # "idle"
     /\ req' = [req EXCEPT ![r] = request]
     /\ retryOf' = [retryOf EXCEPT ![r] = retried]
     /\ cfg' = [cfg EXCEPT ![r] = IF request.method # "POST" THEN "none"
                                  ELSE IF cfgOk THEN "loaded" ELSE "failed"]
     /\ IF gate.proceed
        THEN /\ pc' = [pc EXCEPT ![r] = "verify"]
             /\ calls' = [calls EXCEPT ![r].verify = @ + 1]
             /\ UNCHANGED resp
        ELSE /\ pc' = [pc EXCEPT ![r] = "done"]
             /\ Respond(r, gate.response)
     /\ UNCHANGED << now, store, verifierCache, verified, dedupe, markedAt, push,
                     markLog, verifyError,
                     applied, subs, hintCall, hint, message >>

\* the sender posts a notification
Receive(r) ==
  \E request \in RequestInputs, cfgOk \in BOOLEAN : Begin(r, request, 0, cfgOk)

\* the sender posts again what was answered with a 500
Redeliver(r) ==
  \E q \in Reqs, cfgOk \in BOOLEAN :
    /\ pc[q] = "done"
    /\ resp[q].status = 500
    /\ Begin(r, req[q], q, cfgOk)

\* verifyNotification settles (lines 156-171), then markNotificationAsNew is
\* called (line 174)
Verify(r) ==
  \E rootCAs \in BOOLEAN :
    LET got == verifyAppleNotification(getSignedPayload(req[r].body).payload,
                                       Config, verifierCache, rootCAs)
        after == afterVerify(got.ok, got.verified.notificationType)
    IN /\ pc[r] = "verify"
       /\ verifierCache' = got.cache
       /\ verified' = [verified EXCEPT ![r] = got.verified]
       /\ verifyError' = [verifyError EXCEPT ![r] = got.error]
       /\ pc' = [pc EXCEPT ![r] = after.next]
       /\ IF after.next = "done"
          THEN Respond(r, after.response)
          ELSE /\ calls' = [calls EXCEPT ![r].mark = @ + 1]
               /\ UNCHANGED resp
       /\ UNCHANGED << now, store, req, retryOf, dedupe, markedAt, push, cfg,
                       markLog, applied, subs, hintCall, hint, message >>

\* The store executes the SET NX EX of markNotificationAsNew (README.md
\* lines 290-303), or the call fails without having reached the store.
Mark(r) ==
  \E storeOk \in BOOLEAN :
    LET set == markNotificationAsNew(store, verified[r].notificationUUID, Config, now)
    IN /\ pc[r] = "mark"
       /\ pc' = [pc EXCEPT ![r] = "marked"]
       /\ store' = IF storeOk THEN set.store ELSE store
       /\ dedupe' = [dedupe EXCEPT ![r] =
                       IF ~storeOk THEN "error" ELSE IF set.isNew THEN "new" ELSE "duplicate"]
       /\ markedAt' = [markedAt EXCEPT ![r] = IF storeOk THEN now ELSE @]
       /\ UNCHANGED << now, verifierCache, req, retryOf, verified, push, resp,
                       calls, cfg, markLog, verifyError,
                     applied, subs, hintCall, hint, message >>

\* the handler goes on after its lifecycle inference: it builds the message
\* and calls sendPushover (lines 185-199)
Notify(r, after) ==
  IF after.next = "done"
  THEN /\ pc' = [pc EXCEPT ![r] = "done"]
       /\ Respond(r, after.response)
       /\ UNCHANGED message
  ELSE /\ pc' = [pc EXCEPT ![r] = "send"]
       /\ calls' = [calls EXCEPT ![r].push = @ + 1]
       /\ message' = [message EXCEPT ![r] =
                        pushoverCall(verified[r], after.subscriptionLifecycle)]
       /\ UNCHANGED resp

\* markNotificationAsNew settles in the handler (lines 174-183); for a new
\* notification determineSubscriptionLifecycleHint is called, which returns
\* at once when the transaction has no originalTransactionId
Dedupe(r) ==
  LET after == afterMark(dedupe[r] # "error", dedupe[r] = "new")
      call == startHint(verified[r].notificationType, verified[r].transactionInfo)
  IN /\ pc[r] = "marked"
     /\ IF after.next = "done"
        THEN /\ pc' = [pc EXCEPT ![r] = "done"]
             /\ Respond(r, after.response)
             /\ UNCHANGED << hint, message >>
        ELSE /\ hint' = [hint EXCEPT ![r] = call]
             /\ IF call.pc = "done"
                THEN Notify(r, afterInfer(TRUE, call.lifecycleHint))
                ELSE /\ pc' = [pc EXCEPT ![r] = "infer"]
                     /\ UNCHANGED << resp, calls, message >>
     /\ UNCHANGED << now, store, verifierCache, req, retryOf, verified, dedupe,
                     markedAt, push, cfg, markLog, verifyError,
                     applied, subs, hintCall >>

\* the redis.get of the handler's lifecycle inference settles
InferGet(r) ==
  \E getOk \in BOOLEAN :
    LET call == afterGet(hint[r], getOk,
                         redisGet(subs, getSubscriptionStateKey(
                                          hint[r].transactionInfo.originalTransactionId),
                                  now),
                         now)
    IN /\ pc[r] = "infer"
       /\ hint[r].pc = "get"
       /\ hint' = [hint EXCEPT ![r] = call]
       /\ IF call.pc = "failed"
          THEN Notify(r, afterInfer(FALSE, call.lifecycleHint))
          ELSE UNCHANGED << pc, resp, calls, message >>
       /\ UNCHANGED << now, store, verifierCache, req, retryOf, verified, dedupe,
                       markedAt, push, cfg, markLog, verifyError,
                       applied, subs, hintCall >>

\* the redis.set of the handler's lifecycle inference settles
InferSet(r) ==
  \E setOk \in BOOLEAN :
    LET call == afterSet(hint[r], setOk)
    IN /\ pc[r] = "infer"
       /\ hint[r].pc = "set"
       /\ subs' = storeAfterSet(subs, hint[r], setOk, now)
       /\ hint' = [hint EXCEPT ![r] = call]
       /\ Notify(r, afterInfer(call.pc = "done", call.lifecycleHint))
       /\ UNCHANGED << now, store, verifierCache, req, retryOf, verified, dedupe,
                       markedAt, push, cfg, markLog, verifyError,
                       applied, hintCall >>

\* sendPushover settles (lines 196-205)
Send(r) ==
  \E pushOk \in BOOLEAN :
    /\ pc[r] = "send"
    /\ push' = [push EXCEPT ![r] = IF pushOk THEN "ok" ELSE "failed"]
    /\ pc' = [pc EXCEPT ![r] = "done"]
    /\ Respond(r, afterSend(pushOk))
    /\ store' = storeAfterSend(store, verified[r].notificationUUID, pushOk)
    /\ UNCHANGED << now, verifierCache, req, retryOf, verified, dedupe,
                    markedAt, cfg, markLog, verifyError,
                     applied, subs, hintCall, hint, message >>

\* Time passes, from one of the instants below to a later one: a second at
\* any moment, a longer stretch only while no invocation is running (an
\* invocation is bounded by the host's request timeout, which is far below
\* the retention window).
Instants == {0, 1, DEDUPE_TTL_SECONDS - 1, DEDUPE_TTL_SECONDS}

Tick ==
  \E t \in Instants :
    /\ t > now
    /\ t - now > 1 => \A r \in Reqs : ~InFlight(r)
    /\ now' = t
    /\ UNCHANGED << store, verifierCache, pc, req, retryOf, verified, dedupe, markedAt,
                    push, resp, calls, cfg, markLog, verifyError,
                     applied, subs, hintCall, hint, message >>

Next ==
  \/ \E r \in Reqs : Receive(r)
  \/ \E r \in Reqs : Redeliver(r)
  \/ \E r \in Reqs : Verify(r)
  \/ \E r \in Reqs : Mark(r)
  \/ \E r \in Reqs : Dedupe(r)
  \/ \E r \in Reqs : InferGet(r)
  \/ \E r \in Reqs : InferSet(r)
  \/ \E r \in Reqs : Send(r)
  \/ Tick

Spec == Init /\ [][Next]_vars

\* A started invocation keeps running: every promise the handler awaits
\* settles (it resolves or rejects), and the handler then runs to its next
\* await or to its end.
Step(r) ==
  Verify(r) \/ Mark(r) \/ Dedupe(r) \/ InferGet(r) \/ InferSet(r) \/ Send(r)

SpecFair == Spec /\ \A r \in Reqs : WF_vars(Step(r))

(***************************************************************************)
(* The dedup ledger on its own: markNotificationAsNew called directly,     *)
(* for any notification id, at any time.                                   *)
(***************************************************************************)
LedgerCall(notificationUUID) ==
  LET set == markNotificationAsNew(store, notificationUUID, Config, now)
  IN /\ Len(markLog) < MaxCalls
     /\ store' = set.store
     /\ markLog' = Append(markLog, [uuid |-> notificationUUID, at |-> now,
                                    isNew |-> set.isNew])
     /\ UNCHANGED << now, verifierCache, pc, req, retryOf, verified, dedupe,
                     markedAt, push, resp, calls, cfg, verifyError,
                     applied, subs, hintCall, hint, message >>

NextLedger ==
  \/ \E u \in UUIDs : LedgerCall(u)
  \/ Tick

SpecLedger == Init /\ [][NextLedger]_vars

(***************************************************************************)
(* determineSubscriptionLifecycleHint (src/README.md:477-530), one step    *)
(* per stretch between its awaits.                                         *)
(***************************************************************************)
LifecycleTypeInputs == {"SUBSCRIBED", "DID_RENEW", "REFUND"}

HintStart(c) ==
  \E notificationType \in LifecycleTypeInputs,
     transactionInfo \in LifecycleTransactionInputs :
    /\ hintCall[c].pc = "idle"
    /\ \A d \in HintCalls : d < c => hintCall[d].pc # "idle"
    /\ hintCall' = [hintCall EXCEPT ![c] = startHint(notificationType, transactionInfo)]
    /\ UNCHANGED << now, store, verifierCache, pc, req, retryOf, verified, dedupe,
                    markedAt, push, resp, calls, cfg, markLog, verifyError,
                    applied, subs, hint, message >>

HintGet(c) ==
  \E getOk \in BOOLEAN :
    /\ hintCall[c].pc = "get"
    /\ hintCall' =
         [hintCall EXCEPT ![c] =
            afterGet(@, getOk,
                     redisGet(subs, getSubscriptionStateKey(
                                      @.transactionInfo.originalTransactionId), now),
                     now)]
    /\ UNCHANGED << now, store, verifierCache, pc, req, retryOf, verified, dedupe,
                    markedAt, push, resp, calls, cfg, markLog, verifyError,
                    applied, subs, hint, message >>

HintSet(c) ==
  \E setOk \in BOOLEAN :
    /\ hintCall[c].pc = "set"
    /\ subs' = storeAfterSet(subs, hintCall[c], setOk, now)
    /\ hintCall' = [hintCall EXCEPT ![c] = afterSet(@, setOk)]
    /\ UNCHANGED << now, store, verifierCache, pc, req, retryOf, verified, dedupe,
                    markedAt, push, resp, calls, cfg, markLog, verifyError,
                    applied, hint, message >>

NextLifecycle ==
  \/ \E c \in HintCalls : HintStart(c)
  \/ \E c \in HintCalls : HintGet(c)
  \/ \E c \in HintCalls : HintSet(c)
  \/ Tick

SpecLifecycle == Init /\ [][NextLifecycle]_vars

(***************************************************************************)
(* The functions on their own: one function is applied to one input.       *)
(***************************************************************************)
NotificationTypeInputs ==
  { "REFUND", "SUBSCRIBED", "DID_RENEW", "ONE_TIME_CHARGE",
    "DID_CHANGE_RENEWAL_STATUS", "EXPIRED", "DID_FAIL_TO_RENEW",
    "REFUND_DECLINED", "REFUND_REVERSED", "CONSUMPTION_REQUEST", "TEST",
    "refund", "Subscribed", "did_renew", "" }

\* purchase date minus original purchase date: nothing, -1 ms, 1 ms, a day,
\* the two ends of the window and their neighbours, 7 days, 365 days
GapInputs ==
  { At(0, 0), At(-1, ONE_DAY_IN_MS - 1), At(0, 1), At(1, 0),
    At(4, ONE_DAY_IN_MS - 1), At(5, 0), At(7, 0), At(14, 0), At(14, 1),
    At(15, 0), At(365, 0) }

PurchaseDateInputs ==
  { Plus(OriginalPurchaseDate, gap) : gap \in GapInputs } \cup {Undefined, NaN}

TransactionInfoInputs ==
  { TransactionInfo("pro_yearly", <<"1", "0", "0", "0">>, NoPrice, None, "otx-1",
                    offer, None, purchaseDate, originalPurchaseDate) :
      offer \in {None, "FREE_TRIAL", "PAY_AS_YOU_GO"},
      purchaseDate \in PurchaseDateInputs,
      originalPurchaseDate \in {OriginalPurchaseDate, Undefined} }
  \cup {NoTransactionInfo}

PreviousStateInputs ==
  { SubscriptionState(saw, n, n + 1, OriginalPurchaseDate, OriginalPurchaseDate,
                      "SUBSCRIBED", IF n = 0 THEN "SUBSCRIBED" ELSE "DID_RENEW",
                      OriginalPurchaseDate, OriginalPurchaseDate,
                      OriginalPurchaseDate) :
      saw \in BOOLEAN, n \in 0..2 }
  \cup {NoState}

ApplyClassify ==
  \E notificationType \in NotificationTypeInputs :
    /\ applied.fn = None
    /\ applied' = Application("classifyNotificationType", notificationType,
                              NoTransactionInfo, NoState,
                              classifyNotificationType(notificationType))
    /\ UNCHANGED << now, store, verifierCache, pc, req, retryOf, verified, dedupe,
                    markedAt, push, resp, calls, cfg, markLog, verifyError,
                    subs, hintCall, hint, message >>

ApplyByDates ==
  \E transactionInfo \in TransactionInfoInputs :
    /\ applied.fn = None
    /\ applied' = Application("isLikelyFirstPaidAfterTrialByDates", None,
                              transactionInfo, NoState,
                              isLikelyFirstPaidAfterTrialByDates(transactionInfo))
    /\ UNCHANGED << now, store, verifierCache, pc, req, retryOf, verified, dedupe,
                    markedAt, push, resp, calls, cfg, markLog, verifyError,
                    subs, hintCall, hint, message >>

ApplyHint ==
  \E notificationType \in {"SUBSCRIBED", "DID_RENEW", "ONE_TIME_CHARGE", "REFUND"},
     transactionInfo \in TransactionInfoInputs,
     previousState \in PreviousStateInputs :
    /\ applied.fn = None
    /\ applied' = Application("determineLifecycleHint", notificationType,
                              transactionInfo, previousState,
                              determineLifecycleHint(notificationType, transactionInfo,
                                                     previousState))
    /\ UNCHANGED << now, store, verifierCache, pc, req, retryOf, verified, dedupe,
                    markedAt, push, resp, calls, cfg, markLog, verifyError,
                    subs, hintCall, hint, message >>

\* signed payloads handed to verifyAppleNotification: Apple's notifications
\* of the configured apps and of another app in both environments, a forged
\* one, payloads that lack a required member, payloads with a bundleId
\* member of their own (equal to that of the data object, different from it,
\* padded with white space, blank), and one whose signed transaction does
\* not verify
VerifierEnvelopeInputs ==
  LET app1(env, uuid, ntype) ==
        Envelope(TRUE, env, "com.example.app", 1, uuid, ntype, None,
                 TrialStartTransaction)
      app2(env) ==
        Envelope(TRUE, env, "com.example.app2", 2, "uuid-2", "REFUND", None,
                 NoTransactionInfo)
  IN { app1("Production", "uuid-1", "SUBSCRIBED"),
       app1("Sandbox", "uuid-1", "SUBSCRIBED"),
       app2("Production"), app2("Sandbox"),
       Envelope(FALSE, "Production", "com.example.app", 1, "uuid-1", "SUBSCRIBED",
                None, TrialStartTransaction),
       Envelope(TRUE, "Production", "com.other.app", 9, "uuid-3", "DID_RENEW",
                None, OtherRenewalTransaction),
       Envelope(TRUE, "Sandbox", "com.other.app", 9, "uuid-3", "DID_RENEW",
                None, OtherRenewalTransaction),
       app1("Production", None, "SUBSCRIBED"),
       app1("Production", "", "SUBSCRIBED"),
       app1("Sandbox", "uuid-1", None),
       WithTopLevelBundleId(app1("Production", "uuid-1", "SUBSCRIBED"),
                            "com.example.app"),
       WithTopLevelBundleId(app1("Production", "uuid-1", "SUBSCRIBED"),
                            "com.example.app2"),
       WithTopLevelBundleId(app1("Sandbox", "uuid-1", "SUBSCRIBED"),
                            " com.example.app "),
       WithTopLevelBundleId(app1("Production", "uuid-1", "SUBSCRIBED"), "   "),
       WithTopLevelBundleId(app2("Sandbox"), "com.example.app"),
       WithRejectedTransaction(app1("Production", "uuid-1", "SUBSCRIBED")),
       WithTopLevelBundleId(
         Envelope(FALSE, "Production", "com.other.app", 9, "uuid-3", "DID_RENEW",
                  None, OtherRenewalTransaction), "com.example.app") }

\* an AppleAppConfig
AppleApp(bundleId, appAppleId, pushoverUserKey, pushoverDevice) ==
  [ bundleId |-> bundleId, appAppleId |-> appAppleId,
    pushoverUserKey |-> pushoverUserKey, pushoverDevice |-> pushoverDevice ]

\* AppConfig values handed to verifyAppleNotification: the two tenants of
\* Config, the single tenant without a bundle id of buildSingleAppFallback,
\* and tenant lists in which more than one tenant can verify one envelope
VerifierConfigInputs ==
  { Config,
    [Config EXCEPT !.appleApps =
       << AppleApp(None, 1, "user-key-1", None) >>],
    [Config EXCEPT !.appleApps =
       << AppleApp("com.example.app", 1, "user-key-1", None) >>],
    [Config EXCEPT !.appleApps =
       << AppleApp("com.example.app2", 2, "user-key-override", "iphone-override"),
          AppleApp("com.example.app", 1, "user-key-1", None),
          AppleApp("com.example.app", 5, "user-key-late", "ipad-late") >>],
    [Config EXCEPT !.appleApps =
       << AppleApp("com.example.app", 5, "user-key-late", "ipad-late"),
          AppleApp("com.example.app", 1, "user-key-1", None) >>] }

\* the verifier cache of a fresh process and that of one which has built the
\* verifiers of every tenant of the configuration
RECURSIVE warmCache(_, _, _)
warmCache(config, i, cache) ==
  IF i > Len(config.appleApps) THEN cache
  ELSE IF config.appleApps[i].bundleId = None THEN warmCache(config, i + 1, cache)
  ELSE warmCache(config, i + 1,
                 getVerifiers(cache, TRUE, config, config.appleApps[i].bundleId,
                              config.appleApps[i].appAppleId).cache)

VerifierCacheInputs(config) == { {}, warmCache(config, 1, {}) }

\* verifyAppleNotification(signedPayload, config), and the sendPushover call
\* the handler makes for the notification it returns
ApplyVerify ==
  \E signedPayload \in VerifierEnvelopeInputs, config \in VerifierConfigInputs,
     rootCAs \in BOOLEAN :
    \E cache \in VerifierCacheInputs(config) :
      LET got == verifyAppleNotification(signedPayload, config, cache, rootCAs)
      IN /\ applied.fn = None
         /\ applied' =
              Application("verifyAppleNotification", None, NoTransactionInfo, NoState,
                          [ signedPayload |-> signedPayload, config |-> config,
                            rootCAs |-> rootCAs, cache |-> cache, got |-> got,
                            call |-> IF got.ok THEN pushoverCall(got.verified, None)
                                     ELSE NoMessage ])
         /\ UNCHANGED << now, store, verifierCache, pc, req, retryOf, verified,
                         dedupe, markedAt, push, resp, calls, cfg, markLog,
                         verifyError, subs, hintCall, hint, message >>

(***************************************************************************)
(* env.ts: loadConfig                                                      *)
(***************************************************************************)
\* the zod schema optionalNonEmptyString: undefined passes, a string is
\* trimmed and must not be empty then
envOptionalNonEmptyString(value) ==
  IF value = None THEN [ok |-> TRUE, value |-> None]
  ELSE IF Trim(value) = "" THEN [ok |-> FALSE, value |-> None]
  ELSE [ok |-> TRUE, value |-> Trim(value)]

\* appleAppEntrySchema accepts the entry; appAppleId is a JSON number
appleAppEntryValid(entry) ==
  /\ envOptionalNonEmptyString(entry.bundleId).ok
  /\ entry.appAppleId > 0
  /\ envOptionalNonEmptyString(entry.pushoverUserKey).ok
  /\ envOptionalNonEmptyString(entry.pushoverDevice).ok

ConfigFailed == [ok |-> FALSE, appleApps |-> << >>]

\* the entries as the schema hands them on, with the defaults filled in
parsedAppleApps(entries, defaultPushoverUserKey, defaultPushoverDevice) ==
  [ i \in 1..Len(entries) |->
      AppleApp(envOptionalNonEmptyString(entries[i].bundleId).value,
               entries[i].appAppleId,
               OrElse(envOptionalNonEmptyString(entries[i].pushoverUserKey).value,
                      defaultPushoverUserKey),
               OrElse(envOptionalNonEmptyString(entries[i].pushoverDevice).value,
                      defaultPushoverDevice)) ]

\* mutant: duplicate bundle ids are not looked for
parseAppleApps_DuplicatesAllowed(rawJson, defaultPushoverUserKey, defaultPushoverDevice) ==
  LET apps == parsedAppleApps(rawJson.entries, defaultPushoverUserKey,
                              defaultPushoverDevice)
  IN IF rawJson.kind # "array" THEN ConfigFailed
     ELSE IF Len(rawJson.entries) < 1 THEN ConfigFailed
     ELSE IF \E i \in 1..Len(rawJson.entries) : ~appleAppEntryValid(rawJson.entries[i])
     THEN ConfigFailed
     ELSE IF Len(apps) > 1 /\ \E i \in 1..Len(apps) : apps[i].bundleId = None
     THEN ConfigFailed
     ELSE [ok |-> TRUE, appleApps |-> apps]

\* parseAppleApps: rawJson.kind is "array" for the JSON text of an array and
\* "invalid" for any other text
parseAppleApps(rawJson, defaultPushoverUserKey, defaultPushoverDevice) ==
  LET apps == parsedAppleApps(rawJson.entries, defaultPushoverUserKey,
                              defaultPushoverDevice)
  IN IF rawJson.kind # "array" THEN ConfigFailed
     ELSE IF Len(rawJson.entries) < 1 THEN ConfigFailed
     ELSE IF \E i \in 1..Len(rawJson.entries) : ~appleAppEntryValid(rawJson.entries[i])
     THEN ConfigFailed
     ELSE IF Len(apps) > 1 /\ \E i \in 1..Len(apps) : apps[i].bundleId = None
     THEN ConfigFailed
     ELSE IF \E i, j \in 1..Len(apps) :
               i < j /\ apps[i].bundleId # None /\ apps[i].bundleId = apps[j].bundleId
     THEN ConfigFailed
     ELSE [ok |-> TRUE, appleApps |-> apps]

\* buildSingleAppFallback; appId = 0 stands for an APPLE_APP_ID that is not set
buildSingleAppFallback(parsed) ==
  IF parsed.APPLE_APP_ID = 0 THEN ConfigFailed
  ELSE [ ok |-> TRUE,
         appleApps |->
           << AppleApp(envOptionalNonEmptyString(parsed.APPLE_BUNDLE_ID).value,
                       parsed.APPLE_APP_ID, parsed.PUSHOVER_USER_KEY,
                       envOptionalNonEmptyString(parsed.PUSHOVER_DEVICE).value) >> ]

\* loadConfig: envSchema.parse, then the tenants from APPLE_APPS_JSON if it is
\* set, else from APPLE_APP_ID and APPLE_BUNDLE_ID; required tells whether
\* the variables the schema requires are there
loadConfig(env) ==
  IF \/ ~env.required
     \/ ~envOptionalNonEmptyString(env.PUSHOVER_DEVICE).ok
     \/ ~envOptionalNonEmptyString(env.APPLE_BUNDLE_ID).ok
     \/ env.APPLE_APPS_JSON.kind = "blank"
  THEN ConfigFailed
  ELSE IF env.APPLE_APPS_JSON.kind # "unset"
  THEN parseAppleApps(env.APPLE_APPS_JSON, env.PUSHOVER_USER_KEY,
                      envOptionalNonEmptyString(env.PUSHOVER_DEVICE).value)
  ELSE buildSingleAppFallback(env)

\* the APPLE_APPS_JSON variable: unset, blank, another text than JSON, or the
\* JSON text of an array of entries
AppsJson(kind, entries) == [kind |-> kind, entries |-> entries]

ProcessEnv(required, appsJson, appId, bundleId) ==
  [ required |-> required, APPLE_APPS_JSON |-> appsJson, APPLE_APP_ID |-> appId,
    APPLE_BUNDLE_ID |-> bundleId, PUSHOVER_USER_KEY |-> "user-key-1",
    PUSHOVER_DEVICE |-> None ]

\* entries of APPLE_APPS_JSON: the two apps of the README, one without a
\* bundle id, one whose bundle id is the first's with white space around it,
\* one with a blank bundle id
AppleAppEntryInputs ==
  { AppleApp("com.example.app", 1, None, None),
    AppleApp("com.example.app2", 2, "user-key-override", "iphone-override"),
    AppleApp(None, 3, None, None),
    AppleApp(" com.example.app ", 4, "user-key-late", None),
    AppleApp("   ", 5, None, None) }

MaxEntries == 3

ProcessEnvInputs ==
  { ProcessEnv(TRUE, AppsJson("array", entries), 0, None) :
      entries \in UNION { [1..n -> AppleAppEntryInputs] : n \in 0..MaxEntries } }
  \cup { ProcessEnv(required, AppsJson(kind, << >>), appId, bundleId) :
           required \in BOOLEAN, kind \in {"unset", "blank", "invalid"},
           appId \in {0, 1}, bundleId \in {None, "com.example.app", "   "} }

ApplyLoadConfig ==
  \E env \in ProcessEnvInputs :
    /\ applied.fn = None
    /\ applied' = Application("loadConfig", None, NoTransactionInfo, NoState,
                              [env |-> env, got |-> loadConfig(env)])
    /\ UNCHANGED << now, store, verifierCache, pc, req, retryOf, verified,
                    dedupe, markedAt, push, resp, calls, cfg, markLog,
                    verifyError, subs, hintCall, hint, message >>

\* prices in milliunits: missing, not finite, that of the tests, and
\* amounts with zero to three fraction digits
PriceInputs ==
  {NoPrice, NonFinitePrice, 29990, 4990, 0, 1, 10, 100, 999, 1000, 1001, 12340,
   1234567}

CurrencyInputs == {"EUR", "USD", None}

\* buildPushoverMessage for a renewal with the price and currency
ApplyBuildMessage ==
  \E price \in PriceInputs, currency \in CurrencyInputs,
     action \in {"PURCHASE", "REFUND"} :
    /\ applied.fn = None
    /\ applied' =
         Application("buildPushoverMessage", None, NoTransactionInfo, NoState,
                     [ price |-> price, currency |-> currency,
                       message |->
                         buildPushoverMessage(
                           MessageInput(action, "com.example.app", "DID_RENEW", None,
                                        "Production", "com.example.yearly",
                                        LongTransactionId, None, None, None,
                                        price, currency)) ])
    /\ UNCHANGED << now, store, verifierCache, pc, req, retryOf, verified,
                    dedupe, markedAt, push, resp, calls, cfg, markLog,
                    verifyError, subs, hintCall, hint, message >>

(***************************************************************************)
(* determineSubscriptionLifecycleHint called for a subscription whose key  *)
(* holds something when the process starts: a state an earlier process     *)
(* wrote, or anything else.  applied keeps what the key held.              *)
(***************************************************************************)
\* the state after the trial start of the tests, as JSON.stringify wrote it
IntactObject ==
  stringifyState(SubscriptionState(TRUE, 0, 1, OriginalPurchaseDate,
                                   OriginalPurchaseDate, "SUBSCRIBED", "SUBSCRIBED",
                                   OriginalPurchaseDate, OriginalPurchaseDate,
                                   OriginalPurchaseDate)).object

NumberMembers == {"firstSeenAt", "updatedAt", "didRenewCount", "notificationCount"}

RequiredMembers ==
  {"sawFreeTrial", "firstNotificationType", "lastNotificationType"} \cup NumberMembers

\* what a required member may hold instead of its value: nothing, null, a
\* value of another type, a string with the number, an empty string
MemberInputs(member) ==
  {JsonMissing, JsonNull} \cup
  CASE member = "sawFreeTrial" -> {JsonString("true"), JsonNumber(At(0, 1))}
    [] member \in {"firstSeenAt", "updatedAt"} ->
         {JsonString("1700000000000"), JsonString("abc"), JsonString(""),
          JsonBoolean(TRUE)}
    [] member = "didRenewCount" ->
         {JsonString("0"), JsonString("abc"), JsonString(""), JsonBoolean(TRUE)}
    [] member = "notificationCount" ->
         {JsonString("1"), JsonString("abc"), JsonString(""), JsonBoolean(TRUE)}
    [] OTHER -> {JsonNumber(At(0, 1)), JsonBoolean(TRUE), JsonString("")}

StoredObjectInputs ==
  {IntactObject, EmptyObject,
   [IntactObject EXCEPT !.lastPurchaseDate = JsonString("abc")]}
  \cup UNION { { [IntactObject EXCEPT ![member] = value] :
                   value \in MemberInputs(member) } :
               member \in RequiredMembers }

StoredRawInputs ==
  { [kind |-> "absent", object |-> EmptyObject],
    [kind |-> "text", object |-> EmptyObject],
    [kind |-> "scalar", object |-> EmptyObject] }
  \cup { [kind |-> "json", object |-> object] : object \in StoredObjectInputs }

InitStored ==
  \E raw \in StoredRawInputs :
    /\ InitProcess
    /\ applied = Application("stored", None, NoTransactionInfo, NoState, raw)
    /\ subs = [ k \in SubscriptionKeys |->
                  IF k = getSubscriptionStateKey("otx-1") /\ raw.kind # "absent"
                  THEN [ kind |-> raw.kind, object |-> raw.object,
                         expires |-> SUBSCRIPTION_STATE_TTL_SECONDS ]
                  ELSE AbsentRaw ]

NextStored == HintStart(1) \/ HintGet(1) \/ HintSet(1)

SpecStored == InitStored /\ [][NextStored]_vars

(***************************************************************************)
(* getVerifiers (src/src/appleVerifier.ts:99-113) called again and again   *)
(* in one process, for the tenants of configurations that differ in the    *)
(* online-check flag and in the root CA directory.                         *)
(***************************************************************************)
\* a relative directory, the same directory written as an absolute path,
\* and another directory
RootCaDirInputs ==
  { <<"certs", "apple">>, Cwd \o <<"certs", "apple">>, <<"/", "opt", "roots">> }

CacheConfigInputs ==
  { [Config EXCEPT !.appleEnableOnlineChecks = onlineChecks,
                   !.appleRootCaDir = rootCaDir] :
      onlineChecks \in BOOLEAN, rootCaDir \in RootCaDirInputs }

\* the pairs one process is followed up to
MaxPairs == 3

GetVerifiers ==
  \E config \in CacheConfigInputs, rootCAs \in BOOLEAN :
    \E i \in 1..Len(config.appleApps) :
      LET got == getVerifiers(verifierCache, rootCAs, config,
                              config.appleApps[i].bundleId,
                              config.appleApps[i].appAppleId)
      IN /\ Cardinality(got.cache) <= MaxPairs
         /\ verifierCache' = got.cache
         /\ applied' =
              Application("getVerifiers", None, NoTransactionInfo, NoState,
                          [ config |-> config,
                            bundleId |-> config.appleApps[i].bundleId,
                            appAppleId |-> config.appleApps[i].appAppleId,
                            rootCAs |-> rootCAs, got |-> got ])
         /\ UNCHANGED << now, store, pc, req, retryOf, verified, dedupe, markedAt,
                         push, resp, calls, cfg, markLog, verifyError, subs,
                         hintCall, hint, message >>

NextCache == GetVerifiers

SpecCache == Init /\ [][NextCache]_vars

NextFunctions ==
  \/ ApplyClassify \/ ApplyByDates \/ ApplyHint \/ ApplyVerify
  \/ ApplyLoadConfig \/ ApplyBuildMessage

SpecFunctions == Init /\ [][NextFunctions]_vars

(***************************************************************************)
(* Properties                                                              *)
(***************************************************************************)
Uuid(r) == verified[r].notificationUUID

\* verifyNotification resolved for r
Verified(r) == verified[r] # NoVerified

\* verifyNotification was called for r and rejected
VerifyRejected(r) == calls[r].verify > 0 /\ pc[r] # "verify" /\ ~Verified(r)

SameNotification(r, q) == Verified(r) /\ Verified(q) /\ Uuid(r) = Uuid(q)

Gap(a, b) == IF a >= b THEN a - b ELSE b - a

LogIndex == 1..Len(markLog)

\* C1: markNotificationAsNew answers true exactly when no earlier call for
\* the same id answered true less than the retention window (30 days) before
\* it: the first call is true, every later call inside the window is false,
\* and the first call at or after expiry is true again.
C1_TrueOncePerWindow ==
  \A i \in LogIndex :
    markLog[i].isNew <=>
      ~ \E j \in LogIndex :
          /\ j < i
          /\ markLog[j].uuid = markLog[i].uuid
          /\ markLog[j].isNew
          /\ markLog[i].at - markLog[j].at < 2592000

\* C1 witness: one id marked three times: new, duplicate one second before
\* expiry, new again at expiry
C1_Witness ==
  /\ Len(markLog) >= 3
  /\ markLog[1].uuid = markLog[2].uuid /\ markLog[2].uuid = markLog[3].uuid
  /\ markLog[1].isNew /\ ~markLog[2].isNew /\ markLog[3].isNew
  /\ markLog[2].at - markLog[1].at = DEDUPE_TTL_SECONDS - 1
  /\ markLog[3].at - markLog[1].at = DEDUPE_TTL_SECONDS

\* C2: of the invocations handling one notification UUID inside one retention
\* window, in any interleaving, at most one gets true from
\* markNotificationAsNew and at most one calls sendPushover; an invocation
\* calls sendPushover at most once and only after it got true; every
\* invocation that got false ends as deduped.
C2_AtMostOnePushPerWindow ==
  /\ \A r, q \in Reqs :
       (r # q /\ SameNotification(r, q) /\ dedupe[r] = "new" /\ dedupe[q] = "new")
         => Gap(markedAt[r], markedAt[q]) >= DEDUPE_TTL_SECONDS
  /\ \A r, q \in Reqs :
       (r # q /\ SameNotification(r, q) /\ calls[r].push > 0 /\ calls[q].push > 0)
         => Gap(markedAt[r], markedAt[q]) >= DEDUPE_TTL_SECONDS
  /\ \A r \in Reqs :
       /\ calls[r].push <= 1
       /\ calls[r].push = 1 => dedupe[r] = "new"
       /\ (dedupe[r] = "duplicate" /\ pc[r] # "marked") =>
            /\ pc[r] = "done"
            /\ resp[r] = Response(200, TRUE, "deduped")

\* C2 witness: two invocations for one UUID overlap; the one that marked
\* first is still waiting for the push service when the other has already
\* ended as deduped
C2_Witness ==
  \E r, q \in Reqs :
    /\ r # q /\ SameNotification(r, q)
    /\ pc[r] = "send" /\ dedupe[r] = "new"
    /\ pc[q] = "done" /\ dedupe[q] = "duplicate"
    /\ resp[q] = Response(200, TRUE, "deduped")

\* C3: at-least-once delivery.  The sender stops re-delivering once it is
\* answered 200, so when a re-delivery of a notification whose push failed
\* has been answered 200, some delivery of that notification must have
\* pushed successfully.
C3_FailedPushIsRetried ==
  \A q \in Reqs :
    ( /\ retryOf[q] # 0
      /\ push[retryOf[q]] = "failed"
      /\ pc[q] = "done"
      /\ resp[q].status = 200 )
    => \E p \in Reqs : SameNotification(p, q) /\ push[p] = "ok"

\* C4 as stated: the dedup key of a UUID exists (unexpired) if and only if a
\* push send has been attempted for that UUID
C4_KeyIffPushAttempted ==
  \A u \in UUIDs :
    KeyLive(store, getDedupeKey(u), now)
      <=> \E r \in Reqs : Verified(r) /\ Uuid(r) = u /\ calls[r].push > 0

\* C4 amended: a push send is attempted for a UUID only by an invocation
\* that has set the dedup key of that UUID, and the key then exists until
\* the retention window that began with that set has run out.
C4_PushAttemptImpliesKey ==
  \A r \in Reqs :
    calls[r].push > 0 =>
      /\ Verified(r)
      /\ dedupe[r] = "new"
      /\ markedAt[r] >= 0
      /\ now < markedAt[r] + 2592000
           => KeyLive(store, getDedupeKey(Uuid(r)), now)

\* C4 witness: a push was attempted, time has passed, the key is still there
C4_Witness ==
  \E r \in Reqs :
    /\ push[r] # "none"
    /\ now = markedAt[r] + DEDUPE_TTL_SECONDS - 1
    /\ KeyLive(store, getDedupeKey(Uuid(r)), now)

\* the notification types the handler pushes for
Actionable(r) ==
  verified[r].notificationType \in {"REFUND", "SUBSCRIBED", "DID_RENEW", "ONE_TIME_CHARGE"}

\* the store executed r's SET NX EX while no key for the UUID was in it: no
\* invocation had set it less than a retention window before
FirstSighting(r) ==
  /\ markedAt[r] >= 0
  /\ ~ \E q \in Reqs :
         /\ q # r /\ SameNotification(q, r)
         /\ dedupe[q] = "new"
         /\ markedAt[q] <= markedAt[r]
         /\ markedAt[r] - markedAt[q] < DEDUPE_TTL_SECONDS

\* the state in which r has just ended
Ends(r) == pc[r] # "done" /\ pc'[r] = "done"

\* C5: an invocation for a POST with the configured secret and a verified
\* envelope of a purchase or refund type, whose UUID was not in the ledger,
\* ends (when neither the store nor the push call fails) with 200 {ok:true},
\* having called sendPushover exactly once, and the dedup key of the UUID is
\* then present.
C5_FirstSightingIsPushed ==
  [][ \A r \in Reqs :
        ( /\ Ends(r)
          /\ req'[r].method = "POST"
          /\ readQueryParam(req'[r].secret) = "super-secret"
          /\ Verified(r)' /\ Actionable(r)'
          /\ FirstSighting(r)'
          /\ dedupe'[r] # "error" /\ push'[r] # "failed" )
        => /\ resp'[r] = Response(200, TRUE, None)
           /\ calls'[r].respond = 1
           /\ calls'[r].push = 1 /\ push'[r] = "ok"
           /\ KeyLive(store', getDedupeKey(Uuid(r)'), now') ]_vars

\* C5 witness: a refund notification delivered once has ended as pushed and
\* its key is in the ledger
C5_Witness ==
  \E r \in Reqs :
    /\ pc[r] = "done" /\ Verified(r)
    /\ verified[r].notificationType = "REFUND"
    /\ FirstSighting(r) /\ push[r] = "ok"
    /\ resp[r] = Response(200, TRUE, None)
    /\ KeyLive(store, getDedupeKey(Uuid(r)), now)

\* C6: an invocation whose markNotificationAsNew returned false (the UUID
\* was set in the ledger less than a retention window before) ends with 200
\* {ok:true, deduped:true} and never calls sendPushover.
C6_DuplicateIsNotPushed ==
  \A r \in Reqs :
    dedupe[r] = "duplicate" =>
      /\ ~FirstSighting(r)
      /\ calls[r].push = 0 /\ push[r] = "none"
      /\ pc[r] \in {"marked", "done"}
      /\ pc[r] = "done" =>
           (resp[r] = Response(200, TRUE, "deduped") /\ calls[r].respond = 1)

\* C6 witness: a notification that was pushed is delivered again and ends as
\* deduped
C6_Witness ==
  \E r, q \in Reqs :
    /\ r # q /\ SameNotification(r, q)
    /\ push[q] = "ok" /\ pc[q] = "done"
    /\ dedupe[r] = "duplicate" /\ pc[r] = "done"
    /\ resp[r] = Response(200, TRUE, "deduped")

\* C7: an invocation whose verified notification has a type outside the
\* purchase and refund types ends with 200 {ok:true, ignored:true} without
\* calling markNotificationAsNew or sendPushover; the ledger holds no key
\* for a UUID that only such invocations handled, so a replay is ignored
\* again and never deduped.
C7_IgnoredLeavesNoTrace ==
  /\ \A r \in Reqs :
       (Verified(r) /\ ~Actionable(r)) =>
         /\ pc[r] = "done"
         /\ resp[r] = Response(200, TRUE, "ignored")
         /\ calls[r].mark = 0 /\ calls[r].push = 0
         /\ dedupe[r] = "none" /\ push[r] = "none"
  /\ \A u \in UUIDs :
       (\A r \in Reqs : (Verified(r) /\ Uuid(r) = u) => ~Actionable(r))
         => store[getDedupeKey(u)] = 0

\* C7 witness: an ignored notification replayed, both deliveries ignored
C7_Witness ==
  \E r, q \in Reqs :
    /\ r # q /\ SameNotification(r, q) /\ ~Actionable(r)
    /\ pc[r] = "done" /\ pc[q] = "done"
    /\ resp[r].tag = "ignored" /\ resp[q].tag = "ignored"

\* C8: when the dedup store call fails, the invocation ends with 500
\* {ok:false, error:internal_error} and never calls sendPushover.
C8_StoreFailureFailsClosed ==
  \A r \in Reqs :
    dedupe[r] = "error" =>
      /\ calls[r].push = 0 /\ push[r] = "none"
      /\ pc[r] \in {"marked", "done"}
      /\ pc[r] = "done" =>
           (resp[r] = Response(500, FALSE, "internal_error") /\ calls[r].respond = 1)

\* C8 witness: an invocation ended after its store call failed
C8_Witness ==
  \E r \in Reqs : dedupe[r] = "error" /\ pc[r] = "done" /\ resp[r].status = 500

\* C9: when sendPushover fails for a new, actionable notification, the
\* invocation ends with 500 {ok:false, error:internal_error}, never with a
\* 200.
C9_PushFailureIs500 ==
  \A r \in Reqs :
    push[r] = "failed" =>
      /\ pc[r] = "done"
      /\ dedupe[r] = "new" /\ Actionable(r)
      /\ resp[r] = Response(500, FALSE, "internal_error")
      /\ calls[r].respond = 1

\* C9 witness: an invocation ended after its push failed
C9_Witness ==
  \E r \in Reqs : push[r] = "failed" /\ pc[r] = "done" /\ resp[r].status = 500

C11_MissingRootCaIsConfigurationError ==
  \A r \in Reqs :
    (pc[r] = "done" /\ verifyError[r] = "root_ca_unavailable") =>
      resp[r] = Response(500, FALSE, "invalid_configuration")

\* the fixed outcomes of the handler
Outcomes ==
  { Response(405, FALSE, "method_not_allowed"),
    Response(500, FALSE, "invalid_configuration"),
    Response(404, FALSE, "not_found"),
    Response(400, FALSE, "invalid_payload"),
    Response(400, FALSE, "invalid_signature"),
    Response(200, TRUE, "ignored"),
    Response(200, TRUE, "deduped"),
    Response(200, TRUE, None),
    Response(500, FALSE, "internal_error") }

\* C12: every invocation terminates, having written exactly one response,
\* which is one of the fixed outcomes, whatever loadConfig, verification,
\* the dedup store and the push channel do; before it ends it has written
\* none.
C12_OneFixedOutcome ==
  /\ [](\A r \in Reqs :
         /\ pc[r] = "done" => (calls[r].respond = 1 /\ resp[r] \in Outcomes)
         /\ pc[r] # "done" => (calls[r].respond = 0 /\ resp[r] = NoResponse))
  /\ \A r \in Reqs : (pc[r] # "idle") ~> (pc[r] = "done")

\* C12 witness: all invocations have ended, one after a configuration
\* failure and one after a failed push
C12_Witness ==
  /\ \A r \in Reqs : pc[r] = "done" /\ calls[r].respond = 1
  /\ \E r, q \in Reqs :
       /\ resp[r] = Response(500, FALSE, "invalid_configuration")
       /\ push[q] = "failed" /\ resp[q] = Response(500, FALSE, "internal_error")

\* the body carries a non-empty signedPayload string
HasSignedPayload(r) ==
  req[r].body.kind \in {"object", "json_string"} /\ req[r].body.member = "string"

NothingCalled(r) ==
  /\ calls[r].verify = 0 /\ calls[r].mark = 0 /\ calls[r].push = 0
  /\ calls[r].respond = 1
  /\ ~Verified(r) /\ dedupe[r] = "none" /\ push[r] = "none"

\* C13: gating comes before any processing: a request that is no POST ends
\* 405 method_not_allowed; a POST whose secret is not the configured one ends
\* 404 not_found; a POST with the right secret and no non-empty signedPayload
\* string ends 400 invalid_payload; in all three cases verifyNotification,
\* markNotificationAsNew and sendPushover are never called.
C13_GatingBeforeProcessing ==
  \A r \in Reqs :
    pc[r] # "idle" =>
      /\ req[r].method # "POST" =>
           /\ pc[r] = "done" /\ NothingCalled(r)
           /\ resp[r] = Response(405, FALSE, "method_not_allowed")
      /\ ( /\ req[r].method = "POST" /\ cfg[r] = "loaded"
           /\ readQueryParam(req[r].secret) # "super-secret" ) =>
           /\ pc[r] = "done" /\ NothingCalled(r)
           /\ resp[r] = Response(404, FALSE, "not_found")
      /\ ( /\ req[r].method = "POST" /\ cfg[r] = "loaded"
           /\ readQueryParam(req[r].secret) = "super-secret"
           /\ ~HasSignedPayload(r) ) =>
           /\ pc[r] = "done" /\ NothingCalled(r)
           /\ resp[r] = Response(400, FALSE, "invalid_payload")

\* C13 witness: one request without a secret and without a payload was
\* answered 404, one with the secret first in a repeated parameter and a
\* body that is no JSON was answered 400
C13_Witness ==
  \E r, q \in Reqs :
    /\ req[r].secret = QueryAbsent /\ ~HasSignedPayload(r)
    /\ resp[r] = Response(404, FALSE, "not_found")
    /\ req[q].secret.kind = "array" /\ req[q].body.kind = "text"
    /\ resp[q] = Response(400, FALSE, "invalid_payload")

\* C14: classifyNotificationType is total: REFUND for exactly the string
\* REFUND, PURCHASE for exactly SUBSCRIBED, DID_RENEW and ONE_TIME_CHARGE,
\* IGNORE for every other string.
C14_ClassifierIsTotal ==
  applied.fn = "classifyNotificationType" =>
    /\ applied.result \in {"REFUND", "PURCHASE", "IGNORE"}
    /\ applied.result = "REFUND" <=> applied.notificationType = "REFUND"
    /\ applied.result = "PURCHASE" <=>
         \/ applied.notificationType = "SUBSCRIBED"
         \/ applied.notificationType = "DID_RENEW"
         \/ applied.notificationType = "ONE_TIME_CHARGE"

\* C14 witness: a notification type about refunds that is not REFUND was
\* classified, as IGNORE
C14_Witness ==
  /\ applied.fn = "classifyNotificationType"
  /\ applied.notificationType = "REFUND_REVERSED"
  /\ applied.result = "IGNORE"

\* the gap purchaseDate - originalPurchaseDate of the applied transaction
\* info in milliseconds, for gaps of at most 20 days
AppliedGapDefined ==
  /\ applied.transactionInfo.purchaseDate.kind = "number"
  /\ applied.transactionInfo.originalPurchaseDate.kind = "number"

AppliedGapDays ==
  applied.transactionInfo.purchaseDate.days
    - applied.transactionInfo.originalPurchaseDate.days

AppliedGapMs ==
  AppliedGapDays * 86400000
    + applied.transactionInfo.purchaseDate.ms
    - applied.transactionInfo.originalPurchaseDate.ms

\* the gap lies in [5 days, 14 days], that is in [432,000,000 ms,
\* 1,209,600,000 ms]
AppliedGapInTrialWindow ==
  /\ AppliedGapDefined
  /\ AppliedGapDays >= -20 /\ AppliedGapDays <= 20
  /\ AppliedGapMs >= 432000000 /\ AppliedGapMs <= 1209600000

\* C15: the lifecycle hint, for every event type, discount, prior state and
\* date gap: SUBSCRIBED with a FREE_TRIAL discount gives TRIAL_START;
\* otherwise DID_RENEW gives FIRST_PAID_AFTER_TRIAL when the prior state has
\* sawFreeTrial = true and didRenewCount = 0 or when the gap is in the trial
\* window, and RENEWAL otherwise; any other event type gives no hint.
C15_HintDetermination ==
  applied.fn = "determineLifecycleHint" =>
    applied.result =
      IF /\ applied.notificationType = "SUBSCRIBED"
         /\ applied.transactionInfo.offerDiscountType = "FREE_TRIAL"
      THEN "TRIAL_START"
      ELSE IF applied.notificationType = "DID_RENEW"
      THEN IF \/ /\ applied.previousState.present
                  /\ applied.previousState.sawFreeTrial
                  /\ applied.previousState.didRenewCount = 0
              \/ AppliedGapInTrialWindow
           THEN "FIRST_PAID_AFTER_TRIAL"
           ELSE "RENEWAL"
      ELSE None

\* C15 witness: a DID_RENEW a year after the original purchase, on a prior
\* state with a trial seen and no renewal yet, gave FIRST_PAID_AFTER_TRIAL
C15_Witness ==
  /\ applied.fn = "determineLifecycleHint"
  /\ applied.notificationType = "DID_RENEW"
  /\ applied.previousState.present /\ applied.previousState.sawFreeTrial
  /\ applied.previousState.didRenewCount = 0
  /\ AppliedGapDays = 365
  /\ applied.result = "FIRST_PAID_AFTER_TRIAL"

\* C16: the date heuristic holds exactly when purchaseDate -
\* originalPurchaseDate lies in [432,000,000 ms, 1,209,600,000 ms]; a
\* DID_RENEW with no prior state gives FIRST_PAID_AFTER_TRIAL for a 7-day gap
\* and RENEWAL for a 365-day gap; a missing, zero or negative gap never holds.
C16_TrialWindowIsClosedInterval ==
  /\ applied.fn = "isLikelyFirstPaidAfterTrialByDates" =>
       /\ applied.result <=> AppliedGapInTrialWindow
       /\ ~AppliedGapDefined => ~applied.result
       /\ (AppliedGapDefined /\ AppliedGapDays <= 0 /\ AppliedGapMs <= 0)
            => ~applied.result
  /\ ( /\ applied.fn = "determineLifecycleHint"
       /\ applied.notificationType = "DID_RENEW"
       /\ ~applied.previousState.present
       /\ AppliedGapDefined ) =>
       /\ (AppliedGapDays = 7 /\ AppliedGapMs = 604800000)
            => applied.result = "FIRST_PAID_AFTER_TRIAL"
       /\ AppliedGapDays = 365 => applied.result = "RENEWAL"

\* C16 witness: the heuristic was applied to a gap of exactly 14 days and
\* held
C16_Witness ==
  /\ applied.fn = "isLikelyFirstPaidAfterTrialByDates"
  /\ AppliedGapDefined /\ AppliedGapDays = 14 /\ AppliedGapMs = 1209600000
  /\ applied.result

\* the state a call would read from the store now
StoredState(k) == parseSubscriptionState(redisGet(subs, k, now))

HintKey(c) == getSubscriptionStateKey(hintCall[c].transactionInfo.originalTransactionId)

\* C17 as stated: for every subscription the stored didRenewCount never
\* decreases, over any sequence of determineSubscriptionLifecycleHint calls,
\* calls that overlap in time on one subscription included.
C17_RenewCountNeverDecreases ==
  [][ \A k \in SubscriptionKeys :
        (StoredState(k).present /\ StoredState(k)'.present) =>
          StoredState(k)'.didRenewCount >= StoredState(k).didRenewCount ]_vars

\* C17 amended: a call whose write finds in the store the state it has read
\* (no other call wrote the subscription's state in between, as for calls
\* that do not overlap, and the state has not expired) stores the count it
\* read, plus one for a DID_RENEW: the stored didRenewCount does not
\* decrease.
C17_RenewCountNeverDecreasesWithoutOverlap ==
  [][ \A c \in HintCalls :
        ( /\ hintCall[c].pc = "set" /\ hintCall'[c].pc = "done"
          /\ StoredState(HintKey(c)) = hintCall[c].previousState ) =>
          /\ StoredState(HintKey(c))'.present
          /\ StoredState(HintKey(c))'.didRenewCount
               = StoredState(HintKey(c)).didRenewCount
                 + (IF hintCall[c].notificationType = "DID_RENEW" THEN 1 ELSE 0)
          /\ StoredState(HintKey(c))'.didRenewCount
               >= StoredState(HintKey(c)).didRenewCount ]_vars

\* C17 witness: a call that read a renewal count of one has ended and the
\* stored count is two
C17_Witness ==
  \E c \in HintCalls :
    /\ hintCall[c].pc = "done"
    /\ hintCall[c].previousState.present
    /\ hintCall[c].previousState.didRenewCount = 1
    /\ StoredState(HintKey(c)).didRenewCount = 2

MessageHas(r, key, value) ==
  \E i \in 1..Len(message[r].parts) :
    message[r].parts[i].key = key /\ message[r].parts[i].value = value

SignedPayloadOf(r) == getSignedPayload(req[r].body).payload

\* the verifier of tenant i for the environment accepts the envelope
Accepts(i, environment, envelope) ==
  verifyAndDecodeNotification(environment, Config.appleApps[i].bundleId,
                              Config.appleApps[i].appAppleId, envelope)

Tenants == 1..Len(Config.appleApps)

\* C20: verifyAppleNotification asks, tenant by tenant, the production
\* verifier before the sandbox verifier and takes the first that accepts: no
\* invocation before the last accepted the payload, the last one did, and
\* the result carries that tenant's identity. A payload that tenant A's
\* production verifier rejects and its sandbox verifier accepts gives the
\* VerifiedNotification of tenant A, decoded by the sandbox verifier, and no
\* error.
C20_ProductionBeforeSandbox ==
  \A r \in Reqs :
    LET a == verified[r].attempts
        n == Len(a)
        e == SignedPayloadOf(r)
    IN /\ Verified(r) =>
            /\ n > 0
            /\ a[1][2] = "Production"
            /\ \A k \in 2..n :
                 \/ a[k] = <<a[k - 1][1], "Sandbox">> /\ a[k - 1][2] = "Production"
                 \/ a[k] = <<a[k - 1][1] + 1, "Production">> /\ a[k - 1][2] = "Sandbox"
            /\ \A k \in 1..(n - 1) : ~Accepts(a[k][1], a[k][2], e)
            /\ Accepts(a[n][1], a[n][2], e)
            /\ verified[r].usedVerifier = a[n][2]
            /\ verified[r].appAppleId = Config.appleApps[a[n][1]].appAppleId
            /\ verified[r].pushoverUserKey = Config.appleApps[a[n][1]].pushoverUserKey
       /\ \A i \in Tenants :
            ( /\ calls[r].verify > 0 /\ pc[r] # "verify"
              /\ verifyError[r] # "root_ca_unavailable"
              /\ e.notificationUUID # None /\ e.notificationType # None
              /\ \A j \in 1..(i - 1) :
                   ~Accepts(j, "Production", e) /\ ~Accepts(j, "Sandbox", e)
              /\ ~Accepts(i, "Production", e)
              /\ Accepts(i, "Sandbox", e) ) =>
              /\ Verified(r) /\ verifyError[r] = None
              /\ verified[r].usedVerifier = "Sandbox"
              /\ verified[r].environment = "Sandbox"
              /\ verified[r].bundleId = Config.appleApps[i].bundleId
              /\ verified[r].appAppleId = Config.appleApps[i].appAppleId
              /\ verified[r].pushoverUserKey = Config.appleApps[i].pushoverUserKey
              /\ verified[r].pushoverDevice = Config.appleApps[i].pushoverDevice

\* C20 witness: the sandbox notification of the second tenant was verified
\* by that tenant's sandbox verifier after three verifiers had rejected it,
\* and pushed to that tenant's Pushover user
C20_Witness ==
  \E r \in Reqs :
    /\ verified[r].attempts = << <<1, "Production">>, <<1, "Sandbox">>,
                                 <<2, "Production">>, <<2, "Sandbox">> >>
    /\ verified[r].usedVerifier = "Sandbox"
    /\ verified[r].bundleId = "com.example.app2"
    /\ message[r].userKey = "user-key-override"
    /\ pc[r] = "done" /\ resp[r] = Response(200, TRUE, None)

\* verifyAppleNotification was applied
VerifyApplied == applied.fn = "verifyAppleNotification"

\* it returned a VerifiedNotification
VerifyReturned == VerifyApplied /\ applied.result.got.ok

\* the tenant whose verifier was invoked last
LastTenant ==
  LET a == applied.result.got.verified.attempts IN a[Len(a)][1]

\* the bundleId members of the decoded payload that are strings with more
\* than white space in them
DecodedBundleIds(envelope) ==
  { b \in {envelope.topLevelBundleId, envelope.bundleId} :
      optionalNonEmptyString(b) # None }

\* C21: for a tenant configured with an explicit bundle id,
\* verifyAppleNotification never returns a VerifiedNotification whose decoded
\* bundle id, the payload's own or that of its data object, is another one
\* than the configured: the returned bundleId is the configured one, and so
\* is every bundleId member the decoded payload has.
C21_BundleBinding ==
  VerifyReturned =>
    LET winner == applied.result.config.appleApps[LastTenant]
    IN winner.bundleId # None =>
         /\ applied.result.got.verified.bundleId = winner.bundleId
         /\ \A b \in DecodedBundleIds(applied.result.signedPayload) :
              Trim(b) = winner.bundleId

\* C21 witness: a payload signed by Apple for com.example.app, accepted by
\* the first tenant's production verifier, which names com.example.app2 as
\* its own bundleId, was rejected for the mismatch
C21_Witness ==
  /\ VerifyApplied
  /\ applied.result.config = Config /\ applied.result.rootCAs
  /\ applied.result.signedPayload.genuine
  /\ applied.result.signedPayload.bundleId = "com.example.app"
  /\ applied.result.signedPayload.topLevelBundleId = "com.example.app2"
  /\ Accepts(1, "Production", applied.result.signedPayload)
  /\ ~applied.result.got.ok
  /\ applied.result.got.error = "bundle_id_mismatch"

\* the bundle id tenant i's verifiers are built with
BundleIdForVerifier(config, i, envelope) ==
  OrElse(config.appleApps[i].bundleId, extractBundleIdFromSignedPayload(envelope))

\* one of tenant i's two verifiers accepts the envelope
CouldVerify(config, i, envelope) ==
  /\ BundleIdForVerifier(config, i, envelope) # None
  /\ \E environment \in {"Production", "Sandbox"} :
       verifyAndDecodeNotification(environment,
                                   BundleIdForVerifier(config, i, envelope),
                                   config.appleApps[i].appAppleId, envelope)

\* the tenants of the applied configuration that could verify the envelope
Verifying ==
  { i \in 1..Len(applied.result.config.appleApps) :
      CouldVerify(applied.result.config, i, applied.result.signedPayload) }

Earliest(S) == CHOOSE i \in S : \A j \in S : i <= j

\* C22: when tenants of the configuration could verify the envelope, the
\* result belongs to the earliest of them in configuration order: the last
\* verifier invoked is one of that tenant and no later tenant's verifier is
\* invoked; the appAppleId, pushoverUserKey and pushoverDevice returned are
\* that tenant's, and they are the target of the handler's sendPushover
\* call. When the call fails although a tenant verified, it failed on that
\* tenant's decoded payload and tried no later tenant.
C22_EarliestTenantWins ==
  ( VerifyApplied /\ Verifying # {}
    /\ applied.result.got.error # "root_ca_unavailable" ) =>
    LET winner == applied.result.config.appleApps[Earliest(Verifying)]
        v == applied.result.got.verified
    IN IF applied.result.got.ok
       THEN /\ LastTenant = Earliest(Verifying)
            /\ \A k \in 1..Len(v.attempts) : v.attempts[k][1] <= Earliest(Verifying)
            /\ v.appAppleId = winner.appAppleId
            /\ v.pushoverUserKey = winner.pushoverUserKey
            /\ v.pushoverDevice = winner.pushoverDevice
            /\ applied.result.call.userKey = winner.pushoverUserKey
            /\ applied.result.call.device = winner.pushoverDevice
       ELSE applied.result.got.error \in
              { "missing_notificationUUID", "missing_notificationType",
                "missing_bundleId", "bundle_id_mismatch",
                "transaction_verification_failed" }

\* C22 witness: both tenants of a list could verify a sandbox notification
\* (the sandbox verifier does not look at the app id); the first one did,
\* and the push goes to its user and device
C22_Witness ==
  /\ VerifyReturned
  /\ Verifying = {1, 2}
  /\ applied.result.got.verified.attempts = << <<1, "Production">>, <<1, "Sandbox">> >>
  /\ applied.result.got.verified.appAppleId = 5
  /\ applied.result.call.userKey = "user-key-late"
  /\ applied.result.call.device = "ipad-late"

\* the bundle id the decoder reads from the decoded payload
DecodedBundleId(envelope) ==
  OrElse(optionalNonEmptyString(envelope.topLevelBundleId),
         optionalNonEmptyString(envelope.bundleId))

\* tenant i would verify the envelope, under production or sandbox, with a
\* decoded bundle id that matches its configuration
VerifiesConsistently(config, i, envelope) ==
  /\ CouldVerify(config, i, envelope)
  /\ DecodedBundleId(envelope) # None
  /\ ensureBundleIdMatches(config.appleApps[i].bundleId, DecodedBundleId(envelope))

\* the verifiers of the tenants could be built (or were cached)
VerifiersAvailable == applied.result.got.error # "root_ca_unavailable"

SomeTenantVerifiesConsistently ==
  \E i \in 1..Len(applied.result.config.appleApps) :
    VerifiesConsistently(applied.result.config, i, applied.result.signedPayload)

\* the decoded payload has what the decoder requires besides the bundle id
Decodable(envelope) ==
  /\ ensureString(envelope.notificationUUID)
  /\ ensureString(envelope.notificationType)
  /\ (envelope.transactionInfo.present => envelope.transactionVerifies)

\* C23 as stated: whenever some tenant of the list would verify the envelope
\* under production or sandbox with a decoded bundle id matching its
\* configuration, verifyAppleNotification returns a VerifiedNotification.
C23_FailsOnlyWithoutVerifyingTenant ==
  (VerifyApplied /\ VerifiersAvailable /\ SomeTenantVerifiesConsistently) =>
    applied.result.got.ok

\* C23 amended: whenever some tenant of the list would verify the envelope
\* under production or sandbox with a decoded bundle id matching its
\* configuration, and the decoded payload has non-empty notificationUUID and
\* notificationType and a signed transaction info that verifies if it has
\* one, verifyAppleNotification returns a VerifiedNotification; and it fails
\* whenever no tenant verifies the envelope consistently.
C23_FailsOnlyWithoutDecodableVerification ==
  (VerifyApplied /\ VerifiersAvailable) =>
    /\ ( SomeTenantVerifiesConsistently /\ Decodable(applied.result.signedPayload) )
         => applied.result.got.ok
    /\ ~SomeTenantVerifiesConsistently => ~applied.result.got.ok

\* C23 witness: the sandbox notification of the last of three tenants'
\* bundle ids was returned after the first tenant's verifiers rejected it
C23_Witness ==
  /\ VerifyReturned
  /\ Len(applied.result.config.appleApps) = 3
  /\ ~CouldVerify(applied.result.config, 1, applied.result.signedPayload)
  /\ VerifiesConsistently(applied.result.config, 2, applied.result.signedPayload)
  /\ Decodable(applied.result.signedPayload)
  /\ applied.result.got.verified.environment = "Sandbox"
  /\ LastTenant = 2

\* C24: a VerifiedNotification is produced only after the envelope passed
\* cryptographic verification under a verifier of the selected tenant and
\* the tenant binding check; its notificationUUID, notificationType and
\* bundleId are those of the verified decoded payload. The bundle id read
\* from the unverified payload segment only chooses the verifier: an
\* envelope that no verifier accepts gives no result, whatever bundle id its
\* payload segment shows.
C24_OnlyVerifiedPayloadIsReturned ==
  VerifyReturned =>
    LET e == applied.result.signedPayload
        v == applied.result.got.verified
        app == applied.result.config.appleApps[LastTenant]
    IN /\ e.genuine
       /\ verifyAndDecodeNotification(
            v.usedVerifier,
            BundleIdForVerifier(applied.result.config, LastTenant, e),
            app.appAppleId, e)
       /\ ensureBundleIdMatches(app.bundleId, v.bundleId)
       /\ v.notificationUUID = e.notificationUUID
       /\ v.notificationType = e.notificationType
       /\ v.bundleId = DecodedBundleId(e)
       /\ v.appAppleId = app.appAppleId

\* C24 witness: the tenant has no bundle id, the verifiers were chosen by the
\* bundle id of the payload segment, and the notification, which the sandbox
\* verifier accepted, was returned with the fields of the decoded payload
C24_Witness ==
  /\ VerifyReturned
  /\ applied.result.config.appleApps[1].bundleId = None
  /\ BundleIdForVerifier(applied.result.config, 1, applied.result.signedPayload)
       = "com.other.app"
  /\ applied.result.got.verified.usedVerifier = "Sandbox"
  /\ applied.result.got.verified.bundleId = "com.other.app"
  /\ applied.result.got.verified.notificationUUID = "uuid-3"

\* the amount parts of the message built
AmountParts ==
  { i \in 1..Len(applied.result.message.parts) :
      applied.result.message.parts[i].key = "amount" }

\* the thousandths that fraction digits stand for
Thousandths(fraction) ==
  CASE Len(fraction) = 0 -> 0
    [] Len(fraction) = 1 -> fraction[1] * 100
    [] Len(fraction) = 2 -> fraction[1] * 100 + fraction[2] * 10
    [] OTHER -> fraction[1] * 100 + fraction[2] * 10 + fraction[3]

ConfigAccepted == applied.fn = "loadConfig" /\ applied.result.got.ok

\* C26: every configuration loadConfig accepts has at least one tenant; if
\* it has more than one, every tenant has a bundle id and the bundle ids are
\* pairwise distinct; hence a tenant without a bundle id, for which the
\* resolver extracts one from the unverified payload, is the only tenant.
C26_AcceptedConfigurations ==
  ConfigAccepted =>
    LET apps == applied.result.got.appleApps
    IN /\ Len(apps) >= 1
       /\ Len(apps) > 1 =>
            /\ \A i \in 1..Len(apps) : apps[i].bundleId \notin {None, ""}
            /\ \A i, j \in 1..Len(apps) : i # j => apps[i].bundleId # apps[j].bundleId
       /\ \A i \in 1..Len(apps) : apps[i].bundleId = None => Len(apps) = 1

\* C26 witness: the list of the README's two apps was accepted, the first
\* app with the default Pushover user
C26_Witness ==
  /\ ConfigAccepted
  /\ Len(applied.result.got.appleApps) = 2
  /\ applied.result.got.appleApps[1].bundleId = "com.example.app"
  /\ applied.result.got.appleApps[2].bundleId = "com.example.app2"
  /\ applied.result.got.appleApps[1].pushoverUserKey = "user-key-1"

\* C27: within one invocation there are no retries and the steps are
\* ordered: verifyNotification is called at most once;
\* markNotificationAsNew at most once and only after the verification
\* succeeded with a classification other than IGNORE; sendPushover at most
\* once and only after markNotificationAsNew returned true.
C27_StepsOnceAndInOrder ==
  \A r \in Reqs :
    /\ calls[r].verify <= 1 /\ calls[r].mark <= 1 /\ calls[r].push <= 1
    /\ calls[r].mark > 0 =>
         /\ calls[r].verify = 1 /\ pc[r] \notin {"idle", "verify"}
         /\ Verified(r)
         /\ classifyNotificationType(verified[r].notificationType) # "IGNORE"
    /\ calls[r].push > 0 =>
         /\ calls[r].mark = 1 /\ pc[r] \in {"send", "done"}
         /\ dedupe[r] = "new"
    /\ pc[r] = "verify" => ~Verified(r) /\ calls[r].mark = 0
    /\ pc[r] \in {"mark", "marked", "infer"} => calls[r].push = 0

\* C27 witness: an invocation has ended after one call of each of the three
\* steps, while another one for the same notification stopped at the ledger
C27_Witness ==
  \E r, q \in Reqs :
    /\ pc[r] = "done" /\ calls[r] = [verify |-> 1, mark |-> 1, push |-> 1, respond |-> 1]
    /\ dedupe[r] = "new" /\ push[r] = "failed"
    /\ pc[q] = "done" /\ calls[q] = [verify |-> 1, mark |-> 1, push |-> 0, respond |-> 1]
    /\ SameNotification(r, q) /\ dedupe[q] = "duplicate"

\* C28: no handler path deletes or overwrites an existing dedup key: no
\* step changes the expiry of a key that is present, so a key stays until
\* its time to live has run out, also when the push that followed its
\* creation failed and the request ended with 500.
C28_KeyIsNeverOverwritten ==
  /\ [][ \A k \in DedupeKeys : KeyLive(store, k, now) => store'[k] = store[k] ]_vars
  /\ [] ( \A r \in Reqs :
            ( /\ push[r] = "failed" /\ pc[r] = "done"
              /\ now < markedAt[r] + DEDUPE_TTL_SECONDS )
            => /\ resp[r] = Response(500, FALSE, "internal_error")
               /\ store[getDedupeKey(Uuid(r))] = markedAt[r] + DEDUPE_TTL_SECONDS )

\* C28 witness: the push failed and the request ended with 500; the key is
\* there a second before the end of its retention window, a re-delivery
\* having found it in between
C28_Witness ==
  \E r, q \in Reqs :
    /\ push[r] = "failed" /\ resp[r].status = 500
    /\ retryOf[q] = r /\ dedupe[q] = "duplicate" /\ pc[q] = "done"
    /\ now = markedAt[r] + DEDUPE_TTL_SECONDS - 1
    /\ KeyLive(store, getDedupeKey(Uuid(r)), now)

\* call c writes, and the state in the store is the intact state it has read
WritesOverStateRead(c) ==
  /\ hintCall[c].pc = "set" /\ hintCall'[c].pc = "done"
  /\ StoredState(HintKey(c)).present
  /\ StoredState(HintKey(c)) = hintCall[c].previousState

\* C29: first-wins fields. For calls on one subscription that do not
\* overlap, with an intact stored state: once firstSeenAt,
\* firstNotificationType or firstPurchaseDate has a stored value, no later
\* determineSubscriptionLifecycleHint call changes it.
C29_FirstFieldsAreKept ==
  [][ \A c \in HintCalls :
        WritesOverStateRead(c) =>
          /\ StoredState(HintKey(c))'.present
          /\ StoredState(HintKey(c))'.firstSeenAt = StoredState(HintKey(c)).firstSeenAt
          /\ StoredState(HintKey(c))'.firstNotificationType
               = StoredState(HintKey(c)).firstNotificationType
          /\ IsFiniteNumber(StoredState(HintKey(c)).firstPurchaseDate) =>
               StoredState(HintKey(c))'.firstPurchaseDate
                 = StoredState(HintKey(c)).firstPurchaseDate ]_vars

\* C29 witness: a renewal, a day and a year of purchase dates after the trial
\* start, has been written over the state of the trial start, whose
\* first-seen fields are still there
C29_Witness ==
  \E c \in HintCalls :
    /\ hintCall[c].pc = "done"
    /\ hintCall[c].previousState.present
    /\ hintCall[c].notificationType = "DID_RENEW"
    /\ StoredState(HintKey(c)).present
    /\ StoredState(HintKey(c)).firstNotificationType = "SUBSCRIBED"
    /\ StoredState(HintKey(c)).lastNotificationType = "DID_RENEW"
    /\ StoredState(HintKey(c)).firstPurchaseDate = OriginalPurchaseDate
    /\ StoredState(HintKey(c)).lastPurchaseDate # OriginalPurchaseDate
    /\ StoredState(HintKey(c)).firstSeenAt # StoredState(HintKey(c)).updatedAt
    /\ StoredState(HintKey(c)).updatedAt = hintCall[c].dateNow

\* call c writes its state
Writes(c) == hintCall[c].pc = "set" /\ hintCall'[c].pc = "done"

\* C30 as stated: after every call that writes state, the stored updatedAt,
\* lastNotificationType and lastPurchaseDate are the time of the call, its
\* notification type and its purchase date, whatever the previous state
\* held.
C30_LastFieldsAreTheEvents ==
  [][ \A c \in HintCalls :
        Writes(c) =>
          /\ StoredState(HintKey(c))'.present
          /\ StoredState(HintKey(c))'.updatedAt = hintCall[c].dateNow
          /\ StoredState(HintKey(c))'.lastNotificationType = hintCall[c].notificationType
          /\ StoredState(HintKey(c))'.lastPurchaseDate
               = IF IsFiniteNumber(hintCall[c].transactionInfo.purchaseDate)
                 THEN hintCall[c].transactionInfo.purchaseDate
                 ELSE Undefined ]_vars

\* C30 amended: after every call that writes state, the stored updatedAt
\* and lastNotificationType are the time of the call and its notification
\* type, and the stored lastPurchaseDate is its purchase date when that is
\* a finite number; when the event has no finite purchase date, the
\* lastPurchaseDate the call has read is kept.
C30_LastFieldsAreTheEventsOrKept ==
  [][ \A c \in HintCalls :
        Writes(c) =>
          /\ StoredState(HintKey(c))'.present
          /\ StoredState(HintKey(c))'.updatedAt = hintCall[c].dateNow
          /\ StoredState(HintKey(c))'.lastNotificationType = hintCall[c].notificationType
          /\ StoredState(HintKey(c))'.lastPurchaseDate
               = IF IsFiniteNumber(hintCall[c].transactionInfo.purchaseDate)
                 THEN hintCall[c].transactionInfo.purchaseDate
                 ELSE hintCall[c].previousState.lastPurchaseDate ]_vars

\* C30 witness: an event without purchase date has been written over a state
\* with one: type and time are the event's, the purchase date is the one
\* read
C30_Witness ==
  \E c \in HintCalls :
    /\ hintCall[c].pc = "done"
    /\ hintCall[c].previousState.present
    /\ ~IsFiniteNumber(hintCall[c].transactionInfo.purchaseDate)
    /\ StoredState(HintKey(c)).lastNotificationType = hintCall[c].notificationType
    /\ StoredState(HintKey(c)).lastNotificationType
         # hintCall[c].previousState.lastNotificationType
    /\ StoredState(HintKey(c)).updatedAt = hintCall[c].dateNow
    /\ StoredState(HintKey(c)).updatedAt # hintCall[c].previousState.updatedAt
    /\ IsFiniteNumber(StoredState(HintKey(c)).lastPurchaseDate)

\* C31: sawFreeTrial. The value a call writes is true exactly when the
\* state it read had sawFreeTrial = true, or the event carries a FREE_TRIAL
\* discount, or the hint computed for the event is FIRST_PAID_AFTER_TRIAL;
\* so for calls that do not overlap, with an intact stored state, a stored
\* true never becomes false.
C31_SawFreeTrialIsSticky ==
  [][ \A c \in HintCalls :
        /\ Writes(c) =>
             /\ StoredState(HintKey(c))'.present
             /\ StoredState(HintKey(c))'.sawFreeTrial
                  = ( \/ ( /\ hintCall[c].previousState.present
                           /\ hintCall[c].previousState.sawFreeTrial )
                      \/ hintCall[c].transactionInfo.offerDiscountType = "FREE_TRIAL"
                      \/ hintCall[c].lifecycleHint = "FIRST_PAID_AFTER_TRIAL" )
        /\ (WritesOverStateRead(c) /\ StoredState(HintKey(c)).sawFreeTrial) =>
             StoredState(HintKey(c))'.sawFreeTrial ]_vars

\* C31 witness: an event that is no trial start and gets no
\* FIRST_PAID_AFTER_TRIAL hint has been written over a state with
\* sawFreeTrial, which is still true
C31_Witness ==
  \E c \in HintCalls :
    /\ hintCall[c].pc = "done"
    /\ hintCall[c].previousState.present
    /\ hintCall[c].previousState.sawFreeTrial
    /\ hintCall[c].transactionInfo.offerDiscountType # "FREE_TRIAL"
    /\ hintCall[c].lifecycleHint # "FIRST_PAID_AFTER_TRIAL"
    /\ StoredState(HintKey(c)).present
    /\ StoredState(HintKey(c)).sawFreeTrial
    /\ StoredState(HintKey(c)).notificationCount = 2

\* call c writes, and the store holds what the call has read: the intact
\* state it read, or nothing as when it read
WritesOverWhatItRead(c) ==
  Writes(c) /\ StoredState(HintKey(c)) = hintCall[c].previousState

\* C32: counters. For calls that do not overlap, with an intact stored
\* state, each call with an originalTransactionId (whose store calls
\* succeed) raises notificationCount by exactly 1 whatever the event type,
\* and didRenewCount by exactly 1 for a DID_RENEW and by 0 otherwise.
C32_CountersGrowByOne ==
  [][ \A c \in HintCalls :
        WritesOverWhatItRead(c) =>
          /\ StoredState(HintKey(c))'.present
          /\ StoredState(HintKey(c))'.notificationCount
               = StoredState(HintKey(c)).notificationCount + 1
          /\ hintCall[c].notificationType = "DID_RENEW" =>
               StoredState(HintKey(c))'.didRenewCount
                 = StoredState(HintKey(c)).didRenewCount + 1
          /\ hintCall[c].notificationType # "DID_RENEW" =>
               StoredState(HintKey(c))'.didRenewCount
                 = StoredState(HintKey(c)).didRenewCount ]_vars

\* C32 witness: an event that is no renewal has been written over a state
\* with one renewal in one notification: one renewal in two notifications
C32_Witness ==
  \E c \in HintCalls :
    /\ hintCall[c].pc = "done"
    /\ hintCall[c].notificationType # "DID_RENEW"
    /\ hintCall[c].previousState.present
    /\ hintCall[c].previousState.didRenewCount = 1
    /\ hintCall[c].previousState.notificationCount = 1
    /\ StoredState(HintKey(c)).didRenewCount = 1
    /\ StoredState(HintKey(c)).notificationCount = 2

\* the transaction info of call c is absent or has no originalTransactionId
NoOriginalTransactionId(c) ==
  hintCall[c].transactionInfo.originalTransactionId \in {None, ""}

\* C33: a call with an originalTransactionId reads the state, computes the
\* hint from the state it read, and returns only after writing the merged
\* state, with the long time to live, whether or not there was prior state
\* and whatever the hint; the hint returned is the one computed from the
\* state read before the write.
C33_WritesAlwaysHintFromStateRead ==
  [][ \A c \in HintCalls :
        /\ (hintCall[c].pc = "get" /\ hintCall'[c].pc = "set") =>
             /\ hintCall'[c].previousState = StoredState(HintKey(c))
             /\ hintCall'[c].lifecycleHint
                  = determineLifecycleHint(hintCall[c].notificationType,
                                           hintCall[c].transactionInfo,
                                           StoredState(HintKey(c)))
        /\ ( /\ hintCall[c].pc # "done" /\ hintCall'[c].pc = "done"
             /\ ~NoOriginalTransactionId(c)' ) =>
             /\ hintCall[c].pc = "set"
             /\ StoredState(HintKey(c))'
                  = nextState(hintCall[c].notificationType,
                              hintCall[c].transactionInfo,
                              hintCall[c].previousState,
                              determineLifecycleHint(hintCall[c].notificationType,
                                                     hintCall[c].transactionInfo,
                                                     hintCall[c].previousState),
                              hintCall[c].dateNow)
             /\ subs'[HintKey(c)].expires = now + SUBSCRIPTION_STATE_TTL_SECONDS
             /\ hintCall'[c].lifecycleHint
                  = determineLifecycleHint(hintCall[c].notificationType,
                                           hintCall[c].transactionInfo,
                                           hintCall[c].previousState) ]_vars

\* C33 witness: the first renewal after a trial has returned
\* FIRST_PAID_AFTER_TRIAL, and the state it has written would give RENEWAL
C33_Witness ==
  \E c \in HintCalls :
    /\ hintCall[c].pc = "done"
    /\ hintCall[c].notificationType = "DID_RENEW"
    /\ hintCall[c].previousState.present
    /\ hintCall[c].lifecycleHint = "FIRST_PAID_AFTER_TRIAL"
    /\ StoredState(HintKey(c)).didRenewCount = 1
    /\ determineLifecycleHint(hintCall[c].notificationType,
                              hintCall[c].transactionInfo,
                              StoredState(HintKey(c))) = "RENEWAL"

\* C34: without transaction info, or without originalTransactionId in it,
\* the call returns no hint at once, whatever the event type: it never
\* awaits the store, and the store is as it was.
C34_NoIdNoStoreAccess ==
  /\ [](\A c \in HintCalls :
          NoOriginalTransactionId(c) =>
            /\ hintCall[c].pc \in {"idle", "done"}
            /\ hintCall[c].lifecycleHint = None)
  /\ [][ \A c \in HintCalls :
           (hintCall'[c] # hintCall[c] /\ NoOriginalTransactionId(c)') =>
             /\ hintCall'[c].pc = "done"
             /\ subs' = subs ]_vars

\* C34 witness: a renewal whose transaction has no originalTransactionId
\* has returned, while the store holds the state of a subscription
C34_Witness ==
  \E c \in HintCalls :
    /\ hintCall[c].pc = "done"
    /\ hintCall[c].notificationType = "DID_RENEW"
    /\ hintCall[c].transactionInfo.present
    /\ NoOriginalTransactionId(c)
    /\ hintCall[c].lifecycleHint = None
    /\ \E k \in SubscriptionKeys : StoredState(k).present

\* two calls for one subscription
SameSubscription(c, d) ==
  /\ ~NoOriginalTransactionId(c) /\ ~NoOriginalTransactionId(d)
  /\ HintKey(c) = HintKey(d)

\* C36: lifecycle updates of one subscription are not serialized. When a
\* DID_RENEW call writes after another DID_RENEW call for the same
\* originalTransactionId that read the same state (both read before either
\* wrote) and whose write stands in the store, the stored notificationCount
\* and didRenewCount are those read plus 1, not plus 2: the last writer
\* wins.
C36_OverlappingRenewalsCountOnce ==
  [][ \A c, d \in HintCalls :
        ( /\ c # d
          /\ Writes(c)
          /\ hintCall[d].pc = "done"
          /\ SameSubscription(c, d)
          /\ hintCall[c].notificationType = "DID_RENEW"
          /\ hintCall[d].notificationType = "DID_RENEW"
          /\ hintCall[d].previousState = hintCall[c].previousState
          /\ StoredState(HintKey(d)).notificationCount
               = hintCall[d].previousState.notificationCount + 1
          /\ StoredState(HintKey(d)).didRenewCount
               = hintCall[d].previousState.didRenewCount + 1 ) =>
          /\ StoredState(HintKey(c))'.notificationCount
               = hintCall[c].previousState.notificationCount + 1
          /\ StoredState(HintKey(c))'.didRenewCount
               = hintCall[c].previousState.didRenewCount + 1 ]_vars

\* C36 witness: two DID_RENEW calls for one subscription have read the same
\* state and have both written; the counts are those read plus 1
C36_Witness ==
  \E c, d \in HintCalls :
    /\ c # d
    /\ hintCall[c].pc = "done" /\ hintCall[d].pc = "done"
    /\ SameSubscription(c, d)
    /\ hintCall[c].notificationType = "DID_RENEW"
    /\ hintCall[d].notificationType = "DID_RENEW"
    /\ hintCall[d].previousState = hintCall[c].previousState
    /\ StoredState(HintKey(c)).notificationCount
         = hintCall[c].previousState.notificationCount + 1
    /\ StoredState(HintKey(c)).didRenewCount
         = hintCall[c].previousState.didRenewCount + 1

\* the purchase date of the transaction lies 5 to 14 days (432,000,000 ms
\* to 1,209,600,000 ms) after its original purchase date
GapInTrialWindow(transactionInfo) ==
  /\ transactionInfo.purchaseDate.kind = "number"
  /\ transactionInfo.originalPurchaseDate.kind = "number"
  /\ LET days == transactionInfo.purchaseDate.days - transactionInfo.originalPurchaseDate.days
         ms == transactionInfo.purchaseDate.ms - transactionInfo.originalPurchaseDate.ms
     IN /\ days >= -20 /\ days <= 20
        /\ days * 86400000 + ms >= 432000000
        /\ days * 86400000 + ms <= 1209600000

\* C38: for calls that do not overlap, with an intact stored state, once a
\* DID_RENEW is recorded (the state read has didRenewCount >= 1), a
\* DID_RENEW whose purchase-date gap is outside [5, 14] days gets RENEWAL:
\* the prior-state rule gives FIRST_PAID_AFTER_TRIAL to one DID_RENEW at
\* most.
C38_PriorStateRuleFiresOnce ==
  [][ \A c \in HintCalls :
        ( /\ hintCall[c].pc = "get" /\ hintCall'[c].pc = "set"
          /\ hintCall[c].notificationType = "DID_RENEW"
          /\ StoredState(HintKey(c)).present
          /\ StoredState(HintKey(c)).didRenewCount >= 1
          /\ ~GapInTrialWindow(hintCall[c].transactionInfo) ) =>
          hintCall'[c].lifecycleHint = "RENEWAL" ]_vars

\* C38 witness: after a DID_RENEW that got FIRST_PAID_AFTER_TRIAL and left
\* sawFreeTrial with one renewal, a later DID_RENEW has got RENEWAL
C38_Witness ==
  \E c, d \in HintCalls :
    /\ hintCall[d].pc = "done"
    /\ hintCall[d].notificationType = "DID_RENEW"
    /\ hintCall[d].lifecycleHint = "FIRST_PAID_AFTER_TRIAL"
    /\ SameSubscription(c, d)
    /\ hintCall[c].pc = "done"
    /\ hintCall[c].notificationType = "DID_RENEW"
    /\ hintCall[c].previousState.present
    /\ hintCall[c].previousState.sawFreeTrial
    /\ hintCall[c].previousState.didRenewCount = 1
    /\ ~GapInTrialWindow(hintCall[c].transactionInfo)
    /\ hintCall[c].lifecycleHint = "RENEWAL"

\* the entries of the cache under the key of a getVerifiers call: same
\* bundle id, app id, online-check flag and resolved root CA directory
EntriesFor(cache, call) ==
  { e \in cache :
      /\ e.key.bundleId = call.bundleId
      /\ e.key.appId = call.appAppleId
      /\ e.key.onlineChecks = call.config.appleEnableOnlineChecks
      /\ e.key.rootCaDir = resolveRootCaDirectory(call.config.appleRootCaDir) }

\* C37: verifier cache. After any sequence of getVerifiers calls the cache
\* holds at most one pair per key (bundleId, appAppleId, onlineChecks,
\* resolved root CA directory); an entry once present is never removed or
\* replaced; a call whose key is present returns the cached pair without
\* constructing; a call whose key is not present, as when it differs in the
\* onlineChecks flag or the root CA directory, constructs a new pair, which
\* is stored under the new key (when the root CAs cannot be loaded the
\* construction throws and the cache is as before).
C37_VerifierCache ==
  /\ [](\A e, f \in verifierCache : e.key = f.key => e = f)
  /\ [][ applied'.fn = "getVerifiers" =>
           LET call == applied'.result
               cached == EntriesFor(verifierCache, call)
           IN /\ verifierCache \subseteq verifierCache'
              /\ cached # {} =>
                   /\ call.got.ok /\ ~call.got.created
                   /\ call.got.pair \in { e.pair : e \in cached }
                   /\ verifierCache' = verifierCache
              /\ cached = {} =>
                   /\ call.got.created
                   /\ call.got.ok = call.rootCAs
                   /\ call.rootCAs =>
                        /\ call.got.pair \notin { e.pair : e \in verifierCache }
                        /\ EntriesFor(verifierCache', call)
                             = { e \in verifierCache' : e.pair = call.got.pair }
                        /\ Cardinality(verifierCache')
                             = Cardinality(verifierCache) + 1
                   /\ ~call.rootCAs => verifierCache' = verifierCache ]_vars

\* C37 witness: the cache holds pairs for one app that differ in the
\* onlineChecks flag only and in the root CA directory only, and a call
\* that names the directory by its relative path has got the cached pair
\* although no root CA can be loaded
C37_Witness ==
  /\ applied.fn = "getVerifiers"
  /\ ~applied.result.rootCAs
  /\ applied.result.got.ok
  /\ ~applied.result.got.created
  /\ applied.result.config.appleRootCaDir = <<"certs", "apple">>
  /\ \E e, f, g \in verifierCache :
       /\ e.pair = applied.result.got.pair
       /\ f.key = [e.key EXCEPT !.onlineChecks = ~e.key.onlineChecks]
       /\ g.key = [e.key EXCEPT !.rootCaDir = <<"/", "opt", "roots">>]
       /\ Cardinality({e.pair.id, f.pair.id, g.pair.id}) = 3

\* the store answers the markNotificationAsNew of invocation q: duplicate
MarkedAsDuplicate(q) ==
  pc[q] = "mark" /\ pc'[q] = "marked" /\ dedupe'[q] = "duplicate"

\* C39: a duplicate delivery of a notification UUID whose dedup key is
\* still there leaves the key and its remaining time to live as they are:
\* the key ends 30 days after the first sighting, replays do not extend the
\* window.
C39_ReplayDoesNotExtendWindow ==
  [][ \A q \in Reqs :
        MarkedAsDuplicate(q) =>
          /\ store' = store
          /\ store'[getDedupeKey(Uuid(q))] - now' = store[getDedupeKey(Uuid(q))] - now
          /\ \E r \in Reqs \ {q} :
               /\ dedupe[r] = "new"
               /\ Uuid(r) = Uuid(q)
               /\ store'[getDedupeKey(Uuid(q))] = markedAt[r] + DEDUPE_TTL_SECONDS ]_vars

\* C39 witness: a replay came one second before the end of the window of
\* the first sighting, and one second later the key is gone
C39_Witness ==
  \E r, q \in Reqs :
    /\ dedupe[r] = "new" /\ markedAt[r] = 0
    /\ dedupe[q] = "duplicate" /\ markedAt[q] = DEDUPE_TTL_SECONDS - 1
    /\ Uuid(r) = Uuid(q)
    /\ pc[q] = "done"
    /\ now = DEDUPE_TTL_SECONDS
    /\ store[getDedupeKey(Uuid(q))] = DEDUPE_TTL_SECONDS
    /\ ~KeyLive(store, getDedupeKey(Uuid(q)), now)

\* what the key of call c holds now
StoredRaw(c) == redisGet(subs, HintKey(c), now)

\* a required member of a stored object is missing or is not of its type:
\* boolean for sawFreeTrial, number for the times and counts, string for
\* the notification types
IllTyped(object, member) ==
  object[member].type # (CASE member = "sawFreeTrial" -> "boolean"
                           [] member \in NumberMembers -> "number"
                           [] OTHER -> "string")

\* malformed or partially typed: no JSON, no object, or an object with a
\* required member missing or ill-typed
Malformed(raw) ==
  \/ raw.kind \in {"text", "scalar"}
  \/ raw.kind = "json" /\ \E member \in RequiredMembers : IllTyped(raw.object, member)

\* the same, a string that reads as a finite number being as good as the
\* number in the times and counts
IllTypedBeyondConversion(object, member) ==
  /\ IllTyped(object, member)
  /\ ~ ( /\ member \in NumberMembers
         /\ object[member].type = "string"
         /\ object[member].num.kind = "number" )

MalformedBeyondConversion(raw) ==
  \/ raw.kind \in {"text", "scalar"}
  \/ /\ raw.kind = "json"
     /\ \E member \in RequiredMembers : IllTypedBeyondConversion(raw.object, member)

\* the hint of an event of a subscription without prior state
HintOfNewSubscription(notificationType, transactionInfo) ==
  IF notificationType = "SUBSCRIBED" /\ transactionInfo.offerDiscountType = "FREE_TRIAL"
  THEN "TRIAL_START"
  ELSE IF notificationType # "DID_RENEW" THEN None
  ELSE IF GapInTrialWindow(transactionInfo) THEN "FIRST_PAID_AFTER_TRIAL"
  ELSE "RENEWAL"

\* call c reads raw as if there were nothing, and writes a fresh state
TreatedAsNoPriorState(c, raw) ==
  /\ (hintCall[c].pc = "get" /\ hintCall'[c].pc = "set" /\ StoredRaw(c) = raw) =>
       /\ hintCall'[c].previousState = NoState
       /\ hintCall'[c].lifecycleHint
            = HintOfNewSubscription(hintCall[c].notificationType,
                                    hintCall[c].transactionInfo)
  /\ (Writes(c) /\ StoredRaw(c) = raw) =>
       /\ hintCall'[c].lifecycleHint
            = HintOfNewSubscription(hintCall[c].notificationType,
                                    hintCall[c].transactionInfo)
       /\ StoredState(HintKey(c))'.present
       /\ StoredState(HintKey(c))'.notificationCount = 1
       /\ StoredState(HintKey(c))'.didRenewCount
            = (IF hintCall[c].notificationType = "DID_RENEW" THEN 1 ELSE 0)
       /\ StoredState(HintKey(c))'.firstSeenAt = hintCall[c].dateNow
       /\ StoredState(HintKey(c))'.updatedAt = hintCall[c].dateNow
       /\ StoredState(HintKey(c))'.firstNotificationType = hintCall[c].notificationType
       /\ StoredState(HintKey(c))'.sawFreeTrial
            = ( \/ hintCall[c].transactionInfo.offerDiscountType = "FREE_TRIAL"
                \/ hintCall'[c].lifecycleHint = "FIRST_PAID_AFTER_TRIAL" )

\* C35 as stated: a stored state that is malformed or partially typed (no
\* JSON, no object, or sawFreeTrial, firstSeenAt, updatedAt, didRenewCount,
\* notificationCount, firstNotificationType or lastNotificationType missing
\* or ill-typed) is treated as no prior state: the hint is that of a new
\* subscription and a fresh state is written.
C35_MalformedIsNoPriorState ==
  [][ \A c \in HintCalls :
        (applied.fn = "stored" /\ Malformed(applied.result)) =>
          TreatedAsNoPriorState(c, applied.result) ]_vars

\* C35 amended: the same, except that a time or a count held as a string
\* that converts to a finite number is taken as that number.
C35_MalformedBeyondConversionIsNoPriorState ==
  [][ \A c \in HintCalls :
        (applied.fn = "stored" /\ MalformedBeyondConversion(applied.result)) =>
          TreatedAsNoPriorState(c, applied.result) ]_vars

\* C35 witness: the key held the state after a trial start with a
\* didRenewCount that is no number; the renewal a year later has got
\* RENEWAL, not FIRST_PAID_AFTER_TRIAL, and the state written counts one
\* notification
C35_Witness ==
  \E c \in HintCalls :
    /\ applied.fn = "stored"
    /\ applied.result.kind = "json"
    /\ applied.result.object
         = [IntactObject EXCEPT !.didRenewCount = JsonString("abc")]
    /\ hintCall[c].pc = "done"
    /\ hintCall[c].notificationType = "DID_RENEW"
    /\ hintCall[c].transactionInfo = YearlyRenewalTransaction
    /\ hintCall[c].lifecycleHint = "RENEWAL"
    /\ StoredState(HintKey(c)).notificationCount = 1
    /\ ~StoredState(HintKey(c)).sawFreeTrial

====
